---- MODULE Spec2Model ----
(***************************************************************************)
(* Route comparison engine of lifi-lens: fetchAlternativeRoutes and the    *)
(* pure estimators it calls (src/lib/route-analysis.ts), the LiFiClient    *)
(* it sends its 7 variant requests through (getRoutes, executeWithRetry    *)
(* and the response cache) and the RouteComparison component that calls    *)
(* it (src/components/flow/StageDetails.tsx).                               *)
(*                                                                         *)
(* Numbers.  JavaScript numbers are modelled as exact rationals <<n, d>>   *)
(* with d > 0, kept in lowest terms, and NaN as <<0, 0>>; floating point   *)
(* rounding and the infinities are not modelled.  `undefined` numbers and strings are 0 and Undefined: the     *)
(* code only ever tests them for truthiness.                               *)
(***************************************************************************)
EXTENDS Integers, Sequences, FiniteSets, TLC

----------------------------------------------------------------------------
(* Exact rational arithmetic.                                              *)

Abs(x) == IF x < 0 THEN -x ELSE x

RECURSIVE Gcd(_, _)
Gcd(a, b) == IF b = 0 THEN a ELSE Gcd(b, a % b)

NaN == <<0, 0>>
IsNaN(a) == a[2] = 0

(* Each operator binds its operands once (x \in {a}) before it uses them.   *)
(* An operation on NaN has denominator 0 and is NaN.                       *)
Rat(n, d) ==
  CHOOSE r \in {IF y = 0 THEN NaN
                ELSE <<((IF y < 0 THEN -x ELSE x)) \div Gcd(Abs(x), Abs(y)),
                       Abs(y) \div Gcd(Abs(x), Abs(y))>> :
                  x \in {n}, y \in {d}} : TRUE

RInt(n) == <<n, 1>>
RAdd(a, b) ==
  CHOOSE r \in {Rat(x[1] * y[2] + y[1] * x[2], x[2] * y[2]) :
                  x \in {a}, y \in {b}} : TRUE
RSub(a, b) ==
  CHOOSE r \in {Rat(x[1] * y[2] - y[1] * x[2], x[2] * y[2]) :
                  x \in {a}, y \in {b}} : TRUE
RMul(a, b) ==
  CHOOSE r \in {Rat(x[1] * y[1], x[2] * y[2]) : x \in {a}, y \in {b}} : TRUE
RDiv(a, b) ==
  CHOOSE r \in {Rat(x[1] * y[2], x[2] * y[1]) : x \in {a}, y \in {b}} : TRUE
RAbs(a) == CHOOSE r \in {<<Abs(x[1]), x[2]>> : x \in {a}} : TRUE
RLt(a, b) == \E x \in {a}, y \in {b} : x[1] * y[2] < y[1] * x[2]
RLe(a, b) ==
  \E x \in {a}, y \in {b} :
     ~IsNaN(x) /\ ~IsNaN(y) /\ x[1] * y[2] <= y[1] * x[2]
RGt(a, b) == RLt(b, a)
RGe(a, b) == RLe(b, a)
RMax(a, b) ==
  CHOOSE r \in {IF IsNaN(x) \/ IsNaN(y) THEN NaN
                ELSE IF RLt(x, y) THEN y ELSE x : x \in {a}, y \in {b}} : TRUE
RMin(a, b) ==
  CHOOSE r \in {IF IsNaN(x) \/ IsNaN(y) THEN NaN
                ELSE IF RLt(y, x) THEN y ELSE x : x \in {a}, y \in {b}} : TRUE
(* x || 0 on a number: 0 and NaN are falsy.                                *)
OrZero(a) == CHOOSE r \in {IF IsNaN(x) THEN RInt(0) ELSE x : x \in {a}} : TRUE

RECURSIVE RSum(_)
RSum(s) ==
  CHOOSE r \in {IF t = <<>> THEN RInt(0) ELSE RAdd(Head(t), RSum(Tail(t))) :
                  t \in {s}} : TRUE

(* Array.prototype.map, flat and filter on sequences.                      *)
SeqMap(F(_), s) ==
  CHOOSE r \in {[i \in 1..Len(t) |-> F(t[i])] : t \in {s}} : TRUE

RECURSIVE Flat(_)
Flat(ss) ==
  CHOOSE r \in {IF t = <<>> THEN <<>> ELSE Head(t) \o Flat(Tail(t)) :
                  t \in {ss}} : TRUE

RECURSIVE Filter(_, _)
Filter(P(_), s) ==
  CHOOSE r \in
    {IF t = <<>> THEN <<>>
     ELSE IF P(Head(t)) THEN <<Head(t)>> \o Filter(P, Tail(t))
     ELSE Filter(P, Tail(t)) : t \in {s}} : TRUE

Range(s) == {s[i] : i \in 1..Len(s)}

----------------------------------------------------------------------------
(* Data: tokens, steps and routes as the routing API returns them.         *)

Undefined == "undefined"

(* An optional property: Missing when the object does not carry it,       *)
(* Some(v) when it carries v.                                              *)
Missing == <<>>
Some(v) == <<v>>

NoToken == [address |-> Undefined, chainId |-> 0]
Token(a, c) == [address |-> a, chainId |-> c]

(* String.prototype.toLowerCase on the tool names that occur.              *)
toLowerCase(s) ==
  CASE s = "Hop" -> "hop"
    [] s = "1INCH" -> "1inch"
    [] OTHER -> s

(* A RouteStep: tool, type, fee and gas costs in USD, duration in seconds, *)
(* action.slippage (0 when absent).  A cost is its amountUSD, a decimal    *)
(* string modelled by the number it parses to.  Step builds a step that    *)
(* carries every property.                                                 *)
Step(tool, type, fees, gas, dur, slip) ==
  [tool |-> tool, type |-> type,
   feeCosts |-> Some([i \in 1..Len(fees) |-> Some(fees[i])]),
   gasCosts |-> Some([i \in 1..Len(gas) |-> Some(gas[i])]),
   executionDuration |-> Some(dur), slippage |-> slip]

(* A Route.  hasSteps = FALSE is a malformed element of a routes array     *)
(* (no `steps` property): parseRoutesResponse only checks that `routes`    *)
(* is an array, so such an element passes it.                              *)
Route(id, fc, tc, ft, tt, fusd, tusd, steps) ==
  [id |-> id, fromChainId |-> fc, toChainId |-> tc, fromToken |-> ft,
   toToken |-> tt, fromAmountUSD |-> Some(fusd), toAmountUSD |-> Some(tusd),
   hasSteps |-> TRUE, steps |-> steps]

USDC1 == Token("0xUSDC1", 1)
USDC10 == Token("0xUSDC10", 10)

rHop == Route("r1", 1, 10, USDC1, USDC10, RInt(1000), RInt(990),
  <<Step("hop", "cross", <<Rat(3, 2)>>, <<RInt(2)>>, 120, Rat(1, 100))>>)
rHopDup == Route("r2", 1, 10, USDC1, USDC10, RInt(1000), RInt(985),
  <<Step("hop", "cross", <<RInt(4)>>, <<RInt(3)>>, 300, RInt(0))>>)
rSwapBridge == Route("r3", 1, 10, USDC1, USDC10, RInt(1000), RInt(960),
  <<Step("1INCH", "swap", <<RInt(1)>>, <<RInt(6)>>, 30, Rat(1, 200)),
    Step("stargate", "cross", <<RInt(60)>>, <<RInt(5)>>, 1200, RInt(0))>>)
rAcross == Route("r4", 1, 10, USDC1, USDC10, RInt(1000), RInt(995),
  <<Step("across", "cross", <<>>, <<RInt(1)>>, 60, RInt(0))>>)
rMalformed == [Route("r5", 1, 10, USDC1, USDC10, RInt(0), RInt(0), <<>>)
                 EXCEPT !.hasSteps = FALSE]


----------------------------------------------------------------------------
(* Transaction data (StatusResponse) as the status API returns it.         *)

(* An element of sending.includedSteps; isNull is a null array element.    *)
IncludedStep(toToken) == [isNull |-> FALSE, toToken |-> toToken]
NullStep == [isNull |-> TRUE, toToken |-> NoToken]

(* `receiving` absent is a receiving leg with neither token nor chain id.  *)
NoInfo == [token |-> NoToken, chainId |-> 0, amount |-> Undefined,
           includedSteps |-> <<>>]
Info(tok, chain, amount, steps) ==
  [token |-> tok, chainId |-> chain, amount |-> amount, includedSteps |-> steps]

Tx(sending, receiving, substatus, message) ==
  [sending |-> sending, receiving |-> receiving, substatus |-> substatus,
   substatusMessage |-> message, fromAddress |-> "0xFrom", toAddress |-> "0xTo"]

txFull == Tx(Info(USDC1, 1, "1000", <<>>), Info(USDC10, 10, "990", <<>>),
             "SLIPPAGE_EXCEEDED", Undefined)
txSteps == Tx(Info(USDC1, 1, Undefined,
                   <<IncludedStep(NoToken), IncludedStep(USDC10)>>),
              NoInfo, "INSUFFICIENT_BALANCE", Undefined)
txOther == Tx(Info(USDC1, 1, "1000", <<>>), Info(USDC10, 10, "990", <<>>),
              Undefined, Undefined)
txNoReceiving == Tx(Info(USDC1, 1, "1000", <<>>), NoInfo, "OUT_OF_GAS", "reverted")
txStepNoToToken == Tx(Info(USDC1, 1, "1000",
                           <<IncludedStep(USDC10), IncludedStep(NoToken)>>),
                      NoInfo, Undefined, Undefined)
txReceivingNoChain == Tx(Info(USDC1, 1, "1000", <<>>),
                         Info(USDC10, 0, "990", <<>>), Undefined, Undefined)
txReceivingNoToken == Tx(Info(USDC1, 1, "1000", <<>>),
                         Info(NoToken, 10, "990", <<>>), Undefined, Undefined)
txNoSendingToken == Tx(Info(NoToken, 1, "1000", <<>>),
                       Info(USDC10, 10, "990", <<>>), Undefined, Undefined)
txNoSendingChain == Tx(Info(USDC1, 0, "1000", <<>>),
                       Info(USDC10, 10, "990", <<>>), Undefined, Undefined)
txNullStep == Tx(Info(USDC1, 1, "1000", <<IncludedStep(USDC10), NullStep>>),
                 NoInfo, Undefined, Undefined)

----------------------------------------------------------------------------
(* extractRouteParameters: "null", the base parameters, or "throw" (a      *)
(* TypeError reading toToken of a null included step).                     *)

NoParams ==
  [fromChainId |-> 0, fromTokenAddress |-> Undefined, fromAmount |-> Undefined,
   fromAddress |-> Undefined, toAddress |-> Undefined,
   toChainId |-> 0, toTokenAddress |-> Undefined]

extractRouteParametersChainOnly(transactionData) ==
  LET sending == transactionData.sending
      receiving == transactionData.receiving
      base == [fromChainId |-> sending.chainId,
               fromTokenAddress |-> sending.token.address,
               fromAmount |-> IF sending.amount = Undefined THEN "0"
                              ELSE sending.amount,
               fromAddress |-> transactionData.fromAddress,
               toAddress |-> transactionData.toAddress,
               toChainId |-> 0, toTokenAddress |-> Undefined]
      steps == sending.includedSteps
      lastStep == steps[Len(steps)]
  IN  IF sending.token = NoToken \/ sending.chainId = 0
      THEN [kind |-> "null", params |-> NoParams]
      ELSE IF receiving.chainId # 0
      THEN [kind |-> "params",
            params |-> [base EXCEPT !.toChainId = receiving.chainId,
                                    !.toTokenAddress = receiving.token.address]]
      ELSE IF Len(steps) > 0
      THEN IF lastStep.isNull
           THEN [kind |-> "throw", params |-> NoParams]
           ELSE IF lastStep.toToken # NoToken
           THEN [kind |-> "params",
                 params |-> [base EXCEPT !.toChainId = lastStep.toToken.chainId,
                                         !.toTokenAddress = lastStep.toToken.address]]
           ELSE [kind |-> "params", params |-> base]
      ELSE [kind |-> "params", params |-> base]

extractRouteParameters(transactionData) ==
  LET sending == transactionData.sending
      receiving == transactionData.receiving
      base == [fromChainId |-> sending.chainId,
               fromTokenAddress |-> sending.token.address,
               fromAmount |-> IF sending.amount = Undefined THEN "0"
                              ELSE sending.amount,
               fromAddress |-> transactionData.fromAddress,
               toAddress |-> transactionData.toAddress,
               toChainId |-> 0, toTokenAddress |-> Undefined]
      steps == sending.includedSteps
      lastStep == steps[Len(steps)]
  IN  IF sending.token = NoToken \/ sending.chainId = 0
      THEN [kind |-> "null", params |-> NoParams]
      ELSE IF receiving.token # NoToken /\ receiving.chainId # 0
      THEN [kind |-> "params",
            params |-> [base EXCEPT !.toChainId = receiving.chainId,
                                    !.toTokenAddress = receiving.token.address]]
      ELSE IF Len(steps) > 0
      THEN IF lastStep.isNull
           THEN [kind |-> "throw", params |-> NoParams]
           ELSE IF lastStep.toToken # NoToken
           THEN [kind |-> "params",
                 params |-> [base EXCEPT !.toChainId = lastStep.toToken.chainId,
                                         !.toTokenAddress = lastStep.toToken.address]]
           ELSE [kind |-> "params", params |-> base]
      ELSE [kind |-> "params", params |-> base]

----------------------------------------------------------------------------
(* generateAlternativeConfigs: the 7 request variants.  An options object  *)
(* is the function from the names of the options it carries to their       *)
(* values; slippage is in thousandths (30 = 0.03).  A request is the       *)
(* parameters other than options, and the options if it carries any.       *)

HasOptions(baseParams) == "options" \in DOMAIN baseParams

(* ...baseParams.options: the options of the base, none when it has none.  *)
BaseOptions(baseParams) ==
  IF HasOptions(baseParams) THEN baseParams.options ELSE <<>>

Request(baseParams, options) ==
  [params |-> [k \in DOMAIN baseParams \ {"options"} |-> baseParams[k]],
   options |-> options]

(* An options object made of the overrides alone.                          *)
SpreadOptionsFresh(overrides, baseParams) == overrides

(* {...baseParams.options, ...overrides}                                    *)
SpreadOptions(overrides, baseParams) == overrides @@ BaseOptions(baseParams)

generateAlternativeConfigs(baseParams) ==
  LET Variant(overrides) ==
        Request(baseParams, Some(SpreadOptions(overrides, baseParams)))
  IN  << Request(baseParams,
                 IF HasOptions(baseParams) THEN Some(baseParams.options)
                 ELSE Missing),
         Variant([slippage |-> 30, order |-> "CHEAPEST"]),
         Variant([slippage |-> 50, order |-> "FASTEST"]),
         Variant([slippage |-> 20,
                  bridges |-> [prefer |-> <<"hop", "across", "cbridge">>]]),
         Variant([slippage |-> 20,
                  exchanges |-> [prefer |-> <<"1inch", "paraswap", "0x">>]]),
         Variant([slippage |-> 25, allowSwitchChain |-> TRUE]),
         Variant([slippage |-> 10,
                  bridges |-> [prefer |-> <<"hop", "arbitrum", "optimism",
                                            "polygon">>],
                  order |-> "CHEAPEST"]) >>


----------------------------------------------------------------------------
(* Heuristic estimators and the metrics calculator.                        *)

highLiquidityTools == {"1inch", "paraswap", "0x", "uniswap", "sushiswap"}
mediumLiquidityTools == {"dodo", "kyber", "balancer"}


(* A liquidity estimate that takes every route for deep.                   *)
estimateLiquidityDepthHigh(route) == "HIGH"

estimateLiquidityDepth(route) ==
  LET hasHighLiquidity ==
        \E i \in 1..Len(route.steps) :
           toLowerCase(route.steps[i].tool) \in highLiquidityTools
      hasMediumLiquidity ==
        \E i \in 1..Len(route.steps) :
           toLowerCase(route.steps[i].tool) \in mediumLiquidityTools
  IN  IF hasHighLiquidity THEN "HIGH"
      ELSE IF hasMediumLiquidity THEN "MEDIUM" ELSE "LOW"

(* reliabilityScores[tool] || 5                                            *)
reliabilityScores(tool) ==
  CASE tool = "hop" -> RInt(9)
    [] tool = "across" -> Rat(17, 2)
    [] tool = "cbridge" -> RInt(8)
    [] tool = "arbitrum" -> Rat(19, 2)
    [] tool = "optimism" -> Rat(19, 2)
    [] tool = "polygon" -> RInt(9)
    [] tool = "avalanche" -> Rat(17, 2)
    [] tool = "gnosis" -> Rat(15, 2)
    [] tool = "relay" -> RInt(7)
    [] tool = "symbiosis" -> Rat(13, 2)
    [] tool = "thorswap" -> RInt(6)
    [] tool = "squid" -> RInt(7)
    [] tool = "allbridge" -> RInt(6)
    [] tool = "mayan" -> RInt(6)
    [] tool = "debridge" -> Rat(13, 2)
    [] tool = "chainflip" -> Rat(11, 2)
    [] OTHER -> RInt(5)

IsCross(step) == step.type = "cross"
IsSwap(step) == step.type = "swap"

(* The table lookup with the tool name as it is spelled.                   *)
StepReliabilityAsSpelled(step) == reliabilityScores(step.tool)

StepReliability(step) == reliabilityScores(toLowerCase(step.tool))

calculateBridgeReliability(route) ==
  LET bridgeSteps == Filter(IsCross, route.steps)
      totalScore == RSum(SeqMap(StepReliability, bridgeSteps))
  IN  IF Len(bridgeSteps) = 0 THEN RInt(9)
      ELSE RDiv(totalScore, RInt(Len(bridgeSteps)))

HasSlippage(step) == step.slippage # RInt(0)

(* extractSlippageTolerance(route) || 2                                    *)
extractSlippageTolerance(route) ==
  LET swapSteps == Filter(HasSlippage, route.steps)
  IN  IF Len(swapSteps) > 0 THEN RMul(swapSteps[1].slippage, RInt(100))
      ELSE RInt(2)

(* parseFloat(x.amountUSD || "0")                                          *)
ParseUSD(amountUSD) == IF amountUSD = Missing THEN RInt(0) ELSE amountUSD[1]

(* costs?.reduce((total, cost) => total + parseFloat(...), 0) || 0         *)
CostSum(costs) ==
  IF costs = Missing THEN RInt(0) ELSE OrZero(RSum(SeqMap(ParseUSD, costs[1])))


(* The fees of a step with the gas costs left out.                         *)
StepFeesWithoutGas(step) == CostSum(step.feeCosts)

StepFees(step) == RAdd(CostSum(step.feeCosts), CostSum(step.gasCosts))
StepGas(step) == CostSum(step.gasCosts)

(* step.estimate.executionDuration / 60; undefined / 60 is NaN.            *)
StepMinutes(step) ==
  IF step.executionDuration = Missing THEN NaN
  ELSE Rat(step.executionDuration[1], 60)

calculateRouteMetrics(route) ==
  LET totalFeesUSD == RSum(SeqMap(StepFees, route.steps))
      executionTimeMinutes == RSum(SeqMap(StepMinutes, route.steps))
      fromAmountUSD == ParseUSD(route.fromAmountUSD)
      toAmountUSD == ParseUSD(route.toAmountUSD)
      priceImpactPercent ==
        IF RGt(fromAmountUSD, RInt(0))
        THEN RMul(RAbs(RDiv(RSub(RSub(fromAmountUSD, toAmountUSD), totalFeesUSD),
                            fromAmountUSD)), RInt(100))
        ELSE RInt(0)
      complexityScore ==
        RAdd(RInt(Len(route.steps)
                  + (IF \E i \in 1..Len(route.steps) : IsCross(route.steps[i])
                     THEN 2 ELSE 0)),
             Rat(Len(Filter(IsSwap, route.steps)), 2))
      totalGasUSD == RSum(SeqMap(StepGas, route.steps))
      gasEfficiency ==
        IF RGt(fromAmountUSD, RInt(0))
        THEN RMul(RDiv(totalGasUSD, fromAmountUSD), RInt(100))
        ELSE RInt(100)
      liquidityDepth == estimateLiquidityDepth(route)
  IN  [totalFeesUSD |-> totalFeesUSD,
       totalGasUSD |-> totalGasUSD,
       estimatedTime |-> RMul(executionTimeMinutes, RInt(60)),
       priceImpact |-> RDiv(priceImpactPercent, RInt(100)),
       complexityScore |-> complexityScore,
       gasEfficiency |-> gasEfficiency,
       liquidityScore |-> IF liquidityDepth = "HIGH" THEN RInt(9)
                          ELSE IF liquidityDepth = "MEDIUM" THEN RInt(6)
                          ELSE RInt(3),
       bridgeReliability |-> calculateBridgeReliability(route),
       slippageTolerance |-> extractSlippageTolerance(route)]

wellKnownBridges ==
  {"hop", "across", "cbridge", "arbitrum", "optimism", "polygon",
   "avalanche", "gnosis", "relay"}


(* A bridge list that knows no tool.                                       *)
isWellKnownBridgeNone(tool) == FALSE

isWellKnownBridge(tool) == toLowerCase(tool) \in wellKnownBridges

(* The probability before it is bounded: 95 less each reduction.           *)
RawProbability(route, metrics) ==
  LET complexity == RMul(metrics.complexityScore, RInt(2))
      reliability == RMul(RSub(RInt(10), metrics.bridgeReliability), RInt(3))
      liquidity == IF RLt(metrics.liquidityScore, RInt(4)) THEN 15
                   ELSE IF RLt(metrics.liquidityScore, RInt(7)) THEN 5
                   ELSE 0
      priceImpact == IF RGt(metrics.priceImpact, Rat(2, 100)) THEN 10
                     ELSE IF RGt(metrics.priceImpact, Rat(1, 100)) THEN 5
                     ELSE 0
      gas == IF RGt(metrics.gasEfficiency, RInt(10)) THEN 10
             ELSE IF RGt(metrics.gasEfficiency, RInt(5)) THEN 5
             ELSE 0
      hasUnknownBridges ==
        \E i \in 1..Len(route.steps) : ~isWellKnownBridge(route.steps[i].tool)
      unknown == IF hasUnknownBridges THEN 10 ELSE 0
  IN  RSub(RSub(RSub(RInt(95), complexity), reliability),
           RInt(liquidity + priceImpact + gas + unknown))

calculateSuccessProbabilityNoFloor(route, metrics) ==
  RMin(RInt(98), RawProbability(route, metrics))

calculateSuccessProbability(route, metrics) ==
  RMax(RInt(50), RMin(RInt(98), RawProbability(route, metrics)))


(* calculateRiskLevel with the reliability thresholds taken inclusively.   *)
calculateRiskLevelInclusive(metrics, successProbability) ==
  IF \/ RLt(successProbability, RInt(70))
     \/ RGt(metrics.complexityScore, RInt(6))
     \/ RLe(metrics.bridgeReliability, RInt(6))
  THEN "HIGH"
  ELSE IF \/ RLt(successProbability, RInt(85))
          \/ RGt(metrics.complexityScore, RInt(3))
          \/ RLe(metrics.bridgeReliability, RInt(8))
  THEN "MEDIUM"
  ELSE "LOW"

calculateRiskLevel(metrics, successProbability) ==
  IF \/ RLt(successProbability, RInt(70))
     \/ RGt(metrics.complexityScore, RInt(6))
     \/ RLt(metrics.bridgeReliability, RInt(6))
  THEN "HIGH"
  ELSE IF \/ RLt(successProbability, RInt(85))
          \/ RGt(metrics.complexityScore, RInt(3))
          \/ RLt(metrics.bridgeReliability, RInt(8))
  THEN "MEDIUM"
  ELSE "LOW"

calculateOptimalScore(metrics) ==
  LET feeScore == RMax(RInt(0), RSub(RInt(100), metrics.totalFeesUSD))
      timeScore == RMax(RInt(0),
                        RSub(RInt(100),
                             RMul(RDiv(metrics.estimatedTime, RInt(60)), RInt(2))))
      reliabilityScore == RMul(metrics.bridgeReliability, RInt(10))
      complexityScore == RMax(RInt(0),
                              RSub(RInt(100),
                                   RMul(metrics.complexityScore, RInt(10))))
  IN  RAdd(RAdd(RMul(feeScore, Rat(3, 10)), RMul(timeScore, Rat(2, 10))),
           RAdd(RMul(reliabilityScore, Rat(3, 10)),
                RMul(complexityScore, Rat(2, 10))))


----------------------------------------------------------------------------
(* Array.prototype.sort with a comparator: a stable sort.  Before(a, b)    *)
(* is "the comparator returns a negative number for (a, b)".               *)

RECURSIVE Insert(_, _, _)
Insert(Before(_, _), x, sorted) ==
  CHOOSE r \in
    {IF t = <<>> THEN <<y>>
     ELSE IF Before(y, Head(t)) THEN <<y>> \o t
     ELSE <<Head(t)>> \o Insert(Before, y, Tail(t)) :
       y \in {x}, t \in {sorted}} : TRUE

RECURSIVE StableSort(_, _)
StableSort(Before(_, _), s) ==
  IF s = <<>> THEN <<>>
  ELSE Insert(Before, s[Len(s)], StableSort(Before, SubSeq(s, 1, Len(s) - 1)))

(* The comparators of the three rankings, on routes with their metrics.    *)

(* The fee comparator with equal fees counted as out of order.             *)
FeesBeforeOrEqual(a, b) == RLe(a.metrics.totalFeesUSD, b.metrics.totalFeesUSD)

FeesBefore(a, b) == RLt(a.metrics.totalFeesUSD, b.metrics.totalFeesUSD)
TimeBefore(a, b) == RLt(a.metrics.estimatedTime, b.metrics.estimatedTime)
ReliabilityBefore(a, b) ==
  RGt(a.metrics.bridgeReliability, b.metrics.bridgeReliability)

(* The strings a recommendation carries, in the order they are pushed.     *)
Pushed(conds) ==
  LET Keep(c) == c[1]
      Text(c) == c[2]
  IN  CHOOSE r \in {SeqMap(Text, Filter(Keep, cs)) : cs \in {conds}} : TRUE

(* calculateRouteMetrics is pure: the comparators and the optimality test  *)
(* read the metrics of each route of allRoutes, computed once per route.   *)

(* A ranking test that any non-empty ranking passes.                       *)
IsFirstOfAny(sorted, route) == sorted # <<>>

(* byFees[0]?.id === route.id                                              *)
IsFirst(sorted, route) == sorted # <<>> /\ sorted[1].route.id = route.id

generateRouteRecommendation(route, metrics, allRoutes) ==
  LET Measured(r) == [route |-> r, metrics |-> calculateRouteMetrics(r)]
      First(measured) ==
        IF IsFirst(StableSort(FeesBefore, measured), route) THEN "CHEAPEST"
        ELSE IF IsFirst(StableSort(TimeBefore, measured), route) THEN "FASTEST"
        ELSE IF IsFirst(StableSort(ReliabilityBefore, measured), route)
             THEN "SAFEST"
        ELSE "ALTERNATIVE"
      IsOptimal(optimalScore, measured) ==
        \A i \in 1..Len(measured) :
           \/ RGe(optimalScore, calculateOptimalScore(measured[i].metrics))
           \/ measured[i].route.id = route.id
      Type(first, isOptimal) ==
        IF isOptimal /\ first = "ALTERNATIVE" THEN "OPTIMAL" ELSE first
      Recommendation(type, m) ==
        LET reasons ==
              Pushed(<< <<type = "CHEAPEST",
                          "Lowest total fees among all options">>,
                        <<type = "FASTEST", "Shortest estimated execution time">>,
                        <<type = "SAFEST",
                          "Uses most reliable bridges and exchanges">>,
                        <<type = "OPTIMAL",
                          "Best balance of cost, time, and reliability">> >>)
            pros ==
              Pushed(<< <<RLt(m.totalFeesUSD, RInt(10)), "Low transaction fees">>,
                        <<RLt(m.estimatedTime, RInt(300)), "Fast execution time">>,
                        <<RGt(m.bridgeReliability, RInt(8)),
                          "Uses reliable, battle-tested bridges">>,
                        <<RLt(m.complexityScore, RInt(3)),
                          "Simple, straightforward route">>,
                        <<RLt(m.gasEfficiency, RInt(2)), "Gas efficient">>,
                        <<RGt(m.liquidityScore, RInt(7)),
                          "High liquidity depth">> >>)
            cons ==
              Pushed(<< <<RGt(m.totalFeesUSD, RInt(50)),
                          "Higher transaction fees">>,
                        <<RGt(m.estimatedTime, RInt(900)),
                          "Longer execution time">>,
                        <<RLt(m.bridgeReliability, RInt(6)),
                          "Uses less proven bridges">>,
                        <<RGt(m.complexityScore, RInt(5)),
                          "Complex multi-step route">>,
                        <<RGt(m.gasEfficiency, RInt(5)), "Higher gas costs">>,
                        <<RGt(m.priceImpact, Rat(1, 100)),
                          "Higher price impact">> >>)
            slippage ==
              IF /\ RLt(m.slippageTolerance, RInt(2))
                 /\ RGt(m.priceImpact, Rat(5, 1000))
              THEN 3 ELSE 0
        IN  [type |-> type, reasons |-> reasons, pros |-> pros, cons |-> cons,
             adjustments |-> [slippage |-> slippage]]
  IN  CHOOSE r \in
        {CHOOSE q \in
           {Recommendation(type, m) :
              type \in {Type(First(measured),
                             IsOptimal(calculateOptimalScore(m), measured))}} :
           TRUE :
         m \in {metrics}, measured \in {SeqMap(Measured, allRoutes)}} : TRUE

(* The template string of removeDuplicateRoutes.  A string is modelled as  *)
(* the sequence of its hyphens and of the pieces between them, so that two *)
(* strings are equal exactly when their sequences are: a tool name that    *)
(* holds a hyphen is several pieces.  Chain ids and token addresses hold   *)
(* no hyphen.                                                              *)
Pieces(s) ==
  CASE s = "uniswap-v3" -> <<"uniswap", "-", "v3">>
    [] OTHER -> <<s>>

RECURSIVE Join(_, _)
Join(parts, sep) ==
  IF parts = <<>> THEN <<>>
  ELSE IF Len(parts) = 1 THEN <<parts[1]>>
       ELSE <<parts[1], sep>> \o Join(Tail(parts), sep)

StepTool(step) == step.tool

Signature(route) ==
  Flat(SeqMap(Pieces,
              <<ToString(route.fromChainId), "-", ToString(route.toChainId), "-",
                route.fromToken.address, "-", route.toToken.address, "-">>
              \o Join(SeqMap(StepTool, route.steps), "-")))

RECURSIVE FilterUnseen(_, _)
FilterUnseen(routes, seen) ==
  IF routes = <<>> THEN <<>>
  ELSE LET signature == Signature(Head(routes))
       IN  IF signature \in seen THEN FilterUnseen(Tail(routes), seen)
           ELSE <<Head(routes)>>
                \o FilterUnseen(Tail(routes), seen \cup {signature})


(* removeDuplicateRoutes with the first route's signature taken as seen    *)
(* from the start.                                                         *)
removeDuplicateRoutesSeeded(routes) ==
  IF routes = <<>> THEN <<>> ELSE FilterUnseen(routes, {Signature(routes[1])})

(* removeDuplicateRoutes that never records a signature.                   *)
removeDuplicateRoutesForgetful(routes) == routes

removeDuplicateRoutes(routes) == FilterUnseen(routes, {})

(* The sentence analyzeFailureReasons pushes for a substatus.               *)
SubstatusReason(substatus) ==
  CASE substatus = "SLIPPAGE_EXCEEDED" ->
         "Price moved beyond slippage tolerance during execution"
    [] substatus = "INSUFFICIENT_BALANCE" ->
         "Insufficient balance to complete the transaction"
    [] substatus = "INSUFFICIENT_ALLOWANCE" -> "Token allowance was insufficient"
    [] substatus = "OUT_OF_GAS" -> "Transaction ran out of gas"
    [] substatus = "BRIDGE_NOT_AVAILABLE" -> "Bridge service was unavailable"
    [] OTHER -> "Transaction failed due to unknown reasons"

(* An absent or empty string is falsy.                                     *)
Falsy(s) == s \in {Undefined, ""}

(* analyzeFailureReasons without the substatus message.                    *)
analyzeFailureReasonsNoMessage(transactionData) ==
  IF Falsy(transactionData.substatus) THEN <<"Transaction failed">>
  ELSE <<SubstatusReason(transactionData.substatus)>>

(* analyzeFailureReasons without the sentence of last resort.              *)
analyzeFailureReasonsNoDefault(transactionData) ==
  (IF Falsy(transactionData.substatus) THEN <<>>
   ELSE <<SubstatusReason(transactionData.substatus)>>)
  \o (IF Falsy(transactionData.substatusMessage) THEN <<>>
      ELSE <<transactionData.substatusMessage>>)

analyzeFailureReasons(transactionData) ==
  LET substatus == transactionData.substatus
      first ==
        IF Falsy(substatus) THEN <<>>
        ELSE <<SubstatusReason(substatus)>>
      reasons ==
        IF Falsy(transactionData.substatusMessage) THEN first
        ELSE Append(first, transactionData.substatusMessage)
  IN  IF Len(reasons) > 0 THEN reasons ELSE <<"Transaction failed">>

NoRoute == [defined |-> FALSE, id |-> Undefined, fromChainId |-> 0,
            toChainId |-> 0, fromToken |-> NoToken, toToken |-> NoToken]

extractOriginalRoute(transactionData) ==
  LET sending == transactionData.sending
      receiving == transactionData.receiving
  IN  IF sending.token = NoToken THEN NoRoute
      ELSE [defined |-> TRUE, id |-> "original",
            fromChainId |-> sending.chainId,
            toChainId |-> IF receiving.chainId # 0 THEN receiving.chainId
                          ELSE sending.chainId,
            fromToken |-> sending.token,
            toToken |-> IF receiving.token # NoToken THEN receiving.token
                        ELSE sending.token]


----------------------------------------------------------------------------
(* fetchAlternativeRoutes after the joint await (lines 380-434): the       *)
(* value the returned promise resolves to.                                 *)

NoResult ==
  [kind |-> "pending", originalRoute |-> NoRoute, alternativeRoutes |-> <<>>,
   failureReasons |-> <<>>, recommendations |-> <<>>]
NullResult == [NoResult EXCEPT !.kind = "null"]
Thrown == [NoResult EXCEPT !.kind = "throw"]

OrchestrationErrorPropagates == Thrown

(* An exception inside the try block: the catch logs it and returns null.  *)
OnOrchestrationError == NullResult

EmptyComparisonAsNull(transactionData) == NullResult

(* The early return for an empty candidate list (lines 382-389).           *)
EmptyComparison(transactionData) ==
  [kind |-> "comparison", originalRoute |-> NoRoute,
   alternativeRoutes |-> <<>>,
   failureReasons |-> <<"No alternative routes found">>,
   recommendations |-> <<>>]


(* The score comparator with equal scores counted as out of order.         *)

(* The score comparator that ranks the lowest score first.                 *)
ScoreBeforeAscending(a, b) ==
  RLt(calculateOptimalScore(a.metrics), calculateOptimalScore(b.metrics))

ScoreBeforeOrEqual(a, b) ==
  RGe(calculateOptimalScore(a.metrics), calculateOptimalScore(b.metrics))

ScoreBefore(a, b) ==
  RGt(calculateOptimalScore(a.metrics), calculateOptimalScore(b.metrics))


(* The recommendations of the candidates in the order received.            *)
RecommendationsOfCandidates(alternativeRoutes, uniqueRoutes) ==
  [i \in 1..Len(uniqueRoutes) |->
     generateRouteRecommendation(uniqueRoutes[i],
                                 calculateRouteMetrics(uniqueRoutes[i]),
                                 uniqueRoutes)]

(* alternativeRoutes.map(r => generateRouteRecommendation(r.route,         *)
(* r.metrics, uniqueRoutes)), after the sort.                              *)
Recommendations(alternativeRoutes, uniqueRoutes) ==
  [i \in 1..Len(alternativeRoutes) |->
     generateRouteRecommendation(alternativeRoutes[i].route,
                                 alternativeRoutes[i].metrics, uniqueRoutes)]

BuildComparison(transactionData, allRoutes) ==
  LET Alternative(route, uniqueRoutes) ==
        CHOOSE r \in
          {CHOOSE q \in
             {[route |-> route, metrics |-> metrics,
               recommendation |-> recommendation.type,
               successProbability |-> successProbability,
               riskLevel |-> calculateRiskLevel(metrics, successProbability),
               pros |-> recommendation.pros, cons |-> recommendation.cons] :
                successProbability \in
                  {calculateSuccessProbability(route, metrics)},
                recommendation \in
                  {generateRouteRecommendation(route, metrics, uniqueRoutes)}} :
             TRUE :
           metrics \in {calculateRouteMetrics(route)}} : TRUE
      Ranked(uniqueRoutes) ==
        StableSort(ScoreBefore,
                   [i \in 1..Len(uniqueRoutes) |->
                      Alternative(uniqueRoutes[i], uniqueRoutes)])
  IN  CHOOSE r \in
        {CHOOSE q \in
           {[kind |-> "comparison",
             originalRoute |-> extractOriginalRoute(transactionData),
             alternativeRoutes |-> alternativeRoutes,
             failureReasons |-> analyzeFailureReasons(transactionData),
             recommendations |->
               Recommendations(alternativeRoutes, uniqueRoutes)] :
              alternativeRoutes \in {Ranked(uniqueRoutes)}} : TRUE :
         uniqueRoutes \in {removeDuplicateRoutes(allRoutes)}} : TRUE

(* route.steps.map(...) on an element without steps raises a TypeError.    *)
Raises(allRoutes) == \E i \in 1..Len(allRoutes) : ~allRoutes[i].hasSteps

Compare(transactionData, allRoutes) ==
  IF Len(allRoutes) = 0 THEN EmptyComparison(transactionData)
  ELSE IF Raises(allRoutes) THEN OnOrchestrationError
  ELSE BuildComparison(transactionData, allRoutes)


----------------------------------------------------------------------------
(* LiFiClient: configuration, response cache and retry policy.             *)

maxRetries == 3
cacheTTL == 30000

(* The clock advances in steps longer than the routes TTL (cacheTTL / 2).  *)
TickMs == 2 * 10000
MaxTicks == 1

createCacheKey(operation, params) == <<operation, params>>

ExpiredNever(entry, clock) == FALSE

Expired(entry, clock) == clock > entry.timestamp + entry.ttl

(* getFromCache: the entry's data when a live entry exists for the key.    *)
CacheHit(store, key, clock) ==
  \E e \in store : e.key = key /\ ~Expired(e, clock)
CachedData(store, key) == (CHOOSE e \in store : e.key = key).data

(* getFromCache deletes the entry it finds expired.                        *)
AfterLookup(store, key, clock) ==
  {e \in store : ~(e.key = key /\ Expired(e, clock))}

setCache(store, key, data, ttl, clock) ==
  {e \in store : e.key # key}
    \cup {[key |-> key, data |-> data, timestamp |-> clock, ttl |-> ttl]}

(* executeWithRetry's catch: retry only a retryable error, and only while  *)
(* attempt < maxRetries.                                                   *)

(* A retry decision that looks at the attempt count alone.                 *)
ShouldRetryAnyError(isRetryable, attempt) == ~(attempt >= maxRetries)

ShouldRetry(isRetryable, attempt) == isRetryable /\ ~(attempt >= maxRetries)

SameAttempt(attempt) == attempt

(* The attempt argument of the recursive call (line 631).                  *)
NextAttempt(attempt) == attempt + 1

----------------------------------------------------------------------------
(* The routing API.  A behaviour gives, per variant, the routes a          *)
(* successful response carries and the ways an attempt may end: "ok",      *)
(* "fatal" (an error that is not retryable: a 4xx status, a network error, *)
(* the 30 s abort, a body that is not a routes object) or "retryable" (a   *)
(* 5xx, 408 or 429 status).                                               *)

Variants == 1..7

Behaviour(routes, outcomes) ==
  [routes |-> routes, outcomes |-> outcomes, inOrder |-> FALSE]

apiFlaky ==
  Behaviour(<< <<rHop>>, <<rAcross, rHopDup>>, <<rSwapBridge>>, <<rHopDup>>,
               <<>>, <<rAcross>>, <<rHop, rSwapBridge>> >>,
            << {"ok", "fatal"}, {"ok", "fatal"}, {"ok", "fatal"},
               {"ok", "fatal"}, {"ok", "fatal"}, {"ok", "fatal"},
               {"ok", "fatal"} >>)
apiEmpty ==
  Behaviour(<< <<>>, <<>>, <<>>, <<>>, <<>>, <<>>, <<>> >>,
            << {"ok"}, {"ok", "fatal"}, {"ok"}, {"ok", "fatal", "retryable"},
               {"ok"}, {"fatal"}, {"ok"} >>)
apiMalformed ==
  Behaviour(<< <<rHop>>, <<>>, <<rAcross, rMalformed>>, <<>>, <<>>, <<>>,
               <<rSwapBridge>> >>,
            << {"ok"}, {"ok"}, {"ok", "fatal"}, {"ok"}, {"fatal"},
               {"retryable"}, {"ok", "fatal"} >>)

ApiBehaviours == {"flaky", "empty", "malformed"}

(* A behaviour that answers a given request the same way every time, and  *)
(* the requests of one comparison in the order they were first sent.       *)
apiSteady ==
  [inOrder |-> TRUE] @@
  Behaviour(<< <<rHop>>, <<rAcross, rHopDup>>, <<rSwapBridge>>, <<rHopDup>>,
               <<>>, <<rAcross>>, <<rHop, rSwapBridge>> >>,
            << {"ok"}, {"fatal"}, {"ok"}, {"ok"}, {"retryable"}, {"ok"},
               {"ok"} >>)

SteadyBehaviours == {"steady"}

Api(name) ==
  CASE name = "flaky" -> apiFlaky
    [] name = "empty" -> apiEmpty
    [] name = "malformed" -> apiMalformed
    [] name = "steady" -> apiSteady

TxPool ==
  {txFull, txSteps, txNoReceiving, txStepNoToToken, txReceivingNoChain,
   txReceivingNoToken, txNoSendingToken, txNoSendingChain, txNullStep}

SharedTxPool == {txFull, txOther, txSteps, txNoReceiving}

(* The transactionData a component may be rendered with.                   *)
Props(p, c) ==
  IF p = "single" THEN (IF c = 1 THEN TxPool ELSE {})
  ELSE (IF c = 1 THEN {txFull} ELSE SharedTxPool)

NoTx == Tx(NoInfo, NoInfo, Undefined, Undefined)

----------------------------------------------------------------------------
(* State.                                                                  *)

Calls == {1, 2}

VARIABLES
  page,        \* which RouteComparison components the page shows
  api,         \* the routing API's behaviour (its name, see Api)
  pc,          \* per call: "idle", "awaiting", "resolved", "thrown"
  tx,          \* per call: the transactionData argument
  vstate,      \* per call and variant: state of the promise map() made
  attempt,     \* per call and variant: executeWithRetry's attempt
  vroutes,     \* per call and variant: the value the promise resolved to
  allRoutes,   \* per call: the local allRoutes
  result,      \* per call: what the returned promise settled to
  cache,       \* lifiClient.cache
  now,         \* Date.now()
  startedAt,   \* per call: Date.now() when the call was made
  network,     \* the requests that reached the network
  view,        \* per call: the component's state (loading, alternatives, error)
  input,       \* argument of the estimator under test
  output       \* its result

vars == <<page, api, pc, tx, vstate, attempt, vroutes, allRoutes, result,
          cache, now, startedAt, network, view, input, output>>

engineVars == <<page, api, pc, tx, vstate, attempt, vroutes, allRoutes,
                result, cache, now, startedAt, network, view>>

NoInput == [route |-> rMalformed, metrics |-> calculateRouteMetrics(rMalformed)]
NoOutput == <<0, 0>>

(* useState's initial value (StageDetails.tsx lines 365-371).              *)
InitialView ==
  [loading |-> TRUE, alternatives |-> NoResult, error |-> Undefined]

EngineInit ==
  /\ pc = [c \in Calls |-> "idle"]
  /\ tx = [c \in Calls |-> NoTx]
  /\ vstate = [c \in Calls |-> [i \in Variants |-> "idle"]]
  /\ attempt = [c \in Calls |-> [i \in Variants |-> 0]]
  /\ vroutes = [c \in Calls |-> [i \in Variants |-> <<>>]]
  /\ allRoutes = [c \in Calls |-> <<>>]
  /\ result = [c \in Calls |-> NoResult]
  /\ cache = {}
  /\ now = 0
  /\ startedAt = [c \in Calls |-> 0]
  /\ network = {}
  /\ view = [c \in Calls |-> InitialView]

Init ==
  /\ page = "single"
  /\ api \in ApiBehaviours
  /\ EngineInit
  /\ input = NoInput
  /\ output = NoOutput


InitShared ==
  /\ page = "shared"
  /\ api \in SteadyBehaviours
  /\ EngineInit
  /\ input = NoInput
  /\ output = NoOutput

----------------------------------------------------------------------------
(* fetchAlternativeRoutes up to the joint await.                           *)

HasSourceLeg(extracted) ==
  /\ extracted.kind = "params"
  /\ extracted.params.fromChainId # 0

(* The guard of line 363, negated.                                         *)
HasBothLegs(extracted) ==
  /\ extracted.kind = "params"
  /\ extracted.params.fromChainId # 0
  /\ extracted.params.toChainId # 0

RequestOf(transactionData, i) ==
  generateAlternativeConfigs(extractRouteParameters(transactionData).params)[i]

KeyOf(transactionData, i) ==
  createCacheKey("routes", RequestOf(transactionData, i))

Sent(c, i, a, request, clock) ==
  [call |-> c, variant |-> i, attempt |-> a, request |-> request, at |-> clock]

(* loadAlternatives (StageDetails.tsx lines 374-389) up to its await: the  *)
(* synchronous part of fetchAlternativeRoutes, of the 7 map callbacks and  *)
(* of getRoutes, which either answers from the cache or calls fetch.       *)
loadAlternatives(c, transactionData) ==
  LET extracted == extractRouteParameters(transactionData)
      Hit(i) == CacheHit(cache, KeyOf(transactionData, i), now)
  IN  /\ pc[c] = "idle"
      /\ transactionData \in Props(page, c)
      /\ tx' = [tx EXCEPT ![c] = transactionData]
      /\ startedAt' = [startedAt EXCEPT ![c] = now]
      /\ view' = [view EXCEPT ![c] = [@ EXCEPT !.loading = TRUE,
                                               !.error = Undefined]]
      /\ IF extracted.kind = "throw"
         THEN /\ pc' = [pc EXCEPT ![c] = "thrown"]
              /\ result' = [result EXCEPT ![c] = Thrown]
              /\ UNCHANGED <<vstate, attempt, vroutes, cache, network>>
         ELSE IF ~HasBothLegs(extracted)
         THEN /\ pc' = [pc EXCEPT ![c] = "resolved"]
              /\ result' = [result EXCEPT ![c] = NullResult]
              /\ UNCHANGED <<vstate, attempt, vroutes, cache, network>>
         ELSE /\ pc' = [pc EXCEPT ![c] = "awaiting"]
              /\ result' = result
              /\ vstate' = [vstate EXCEPT ![c] =
                   [i \in Variants |-> IF Hit(i) THEN "fulfilled" ELSE "pending"]]
              /\ attempt' = [attempt EXCEPT ![c] =
                   [i \in Variants |-> IF Hit(i) THEN 0 ELSE 1]]
              /\ vroutes' = [vroutes EXCEPT ![c] =
                   [i \in Variants |->
                      IF Hit(i)
                      THEN CachedData(cache, KeyOf(transactionData, i)).routes
                      ELSE <<>>]]
              /\ cache' = {e \in cache :
                             \A i \in Variants :
                                e \in AfterLookup(cache, KeyOf(transactionData, i),
                                                  now)}
              /\ network' = network \cup
                   {Sent(c, i, 1, RequestOf(transactionData, i), now) :
                      i \in {j \in Variants : ~Hit(j)}}
      /\ UNCHANGED <<page, api, allRoutes, now, input, output>>

(* The catch of the map callback (lines 373-376): log, resolve to [].      *)
VariantCatchRethrow == [state |-> "rejected", value |-> <<>>]

VariantCatch == [state |-> "caught", value |-> <<>>]

(* One fetch attempt of variant i ends.                                    *)
fetchSettles(c, i, kind) ==
  LET key == KeyOf(tx[c], i)
      response == [routes |-> Api(api).routes[i]]
      retry == ShouldRetry(kind = "retryable", attempt[c][i])
      end == IF kind = "ok" THEN [state |-> "fulfilled", value |-> response.routes]
             ELSE IF retry THEN [state |-> "sleeping", value |-> <<>>]
             ELSE VariantCatch
  IN  /\ pc[c] = "awaiting"
      /\ vstate[c][i] = "pending"
      /\ kind \in Api(api).outcomes[i]
      /\ Api(api).inOrder =>
            \A j \in 1..(i - 1) : vstate[c][j] \notin {"pending", "sleeping"}
      /\ vstate' = [vstate EXCEPT ![c][i] = end.state]
      /\ vroutes' = [vroutes EXCEPT ![c][i] = end.value]
      /\ cache' = IF kind = "ok"
                  THEN setCache(cache, key, response, cacheTTL \div 2, now)
                  ELSE cache
      /\ UNCHANGED <<page, api, pc, tx, attempt, allRoutes, result, now,
                     startedAt, network, view, input, output>>

(* executeWithRetry's sleep ends: the operation is invoked again.          *)
sleepEnds(c, i) ==
  /\ pc[c] = "awaiting"
  /\ vstate[c][i] = "sleeping"
  /\ vstate' = [vstate EXCEPT ![c][i] = "pending"]
  /\ attempt' = [attempt EXCEPT ![c][i] = NextAttempt(@)]
  /\ network' = network \cup
       {Sent(c, i, NextAttempt(attempt[c][i]), RequestOf(tx[c], i), now)}
  /\ UNCHANGED <<page, api, pc, tx, vroutes, allRoutes, result, cache, now,
                 startedAt, view, input, output>>

Settled(st) == st \in {"fulfilled", "caught", "rejected"}

(* When the promise of Promise.all settles: all fulfilled, or one rejected. *)
PromiseRaceSettles(states) == \E i \in Variants : Settled(states[i])

PromiseAllSettles(states) ==
  \/ \A i \in Variants : Settled(states[i])
  \/ \E i \in Variants : states[i] = "rejected"

(* The continuation of `await Promise.all(routePromises)` (lines 379-434). *)
promiseAllSettles(c) ==
  LET rejected == \E i \in Variants : vstate[c][i] = "rejected"
      flat == Flat(vroutes[c])
      value == IF rejected THEN OnOrchestrationError ELSE Compare(tx[c], flat)
  IN  /\ pc[c] = "awaiting"
      /\ PromiseAllSettles(vstate[c])
      /\ allRoutes' = [allRoutes EXCEPT ![c] = IF rejected THEN @ ELSE flat]
      /\ result' = [result EXCEPT ![c] = value]
      /\ pc' = [pc EXCEPT ![c] = IF value.kind = "throw" THEN "thrown"
                                 ELSE "resolved"]
      /\ UNCHANGED <<page, api, tx, vstate, attempt, vroutes, cache, now,
                     startedAt, network, view, input, output>>

(* loadAlternatives after its await (lines 378-386).                       *)
ViewAfter(old, settled) ==
  IF settled.kind = "throw"
  THEN [old EXCEPT !.error = "TypeError", !.loading = FALSE]
  ELSE [old EXCEPT !.alternatives = settled, !.loading = FALSE]

setState(c) ==
  /\ pc[c] \in {"resolved", "thrown"}
  /\ view[c].loading
  /\ view' = [view EXCEPT ![c] = ViewAfter(@, result[c])]
  /\ UNCHANGED <<page, api, pc, tx, vstate, attempt, vroutes, allRoutes,
                 result, cache, now, startedAt, network, input, output>>

(* What the component renders (lines 476-539).                             *)
Display(state) ==
  IF state.loading THEN "loading"
  ELSE IF state.error # Undefined THEN "error"
  ELSE IF \/ state.alternatives.kind # "comparison"
          \/ Len(state.alternatives.alternativeRoutes) = 0
  THEN "empty"
  ELSE "list"

(* Time passes, more than the routes TTL at once, while no comparison is   *)
(* in flight; the clock starts with the first comparison.                  *)
Tick ==
  /\ now < MaxTicks * TickMs
  /\ \E c \in Calls : pc[c] # "idle"
  /\ \A c \in Calls : pc[c] # "awaiting"
  /\ now' = now + TickMs
  /\ UNCHANGED <<page, api, pc, tx, vstate, attempt, vroutes, allRoutes,
                 result, cache, startedAt, network, view, input, output>>

Next ==
  \/ \E c \in Calls : \E t \in Props(page, c) : loadAlternatives(c, t)
  \/ \E c \in Calls : \E i \in Variants :
        \E kind \in {"ok", "fatal", "retryable"} : fetchSettles(c, i, kind)
  \/ \E c \in Calls : \E i \in Variants : sleepEnds(c, i)
  \/ \E c \in Calls : promiseAllSettles(c)
  \/ \E c \in Calls : setState(c)
  \/ Tick

Spec == Init /\ [][Next]_vars

SpecShared == InitShared /\ [][Next]_vars


(* The scheduling the runtime guarantees: a call that can take a step (an *)
(* HTTP attempt ends with an answer, an error or the 30 s abort; a retry   *)
(* timer fires; the component's continuation runs) takes one, and the      *)
(* continuation of a settled Promise.all runs.  The latter is weak         *)
(* fairness of promiseAllSettles(c), written with its enabling condition   *)
(* spelled out.                                                            *)
Progress(c) ==
  \/ \E i \in Variants :
        \E kind \in {"ok", "fatal", "retryable"} : fetchSettles(c, i, kind)
  \/ \E i \in Variants : sleepEnds(c, i)
  \/ setState(c)

ReadyToContinue(c) == pc[c] = "awaiting" /\ PromiseAllSettles(vstate[c])

Fairness ==
  \A c \in Calls : WF_vars(Progress(c)) /\ []<>(~ReadyToContinue(c))

LiveSpec == Init /\ [][Next]_vars /\ Fairness

----------------------------------------------------------------------------
(* The estimators on their own: an estimator applied to arbitrary metrics. *)

MaxComplexity == 8
MaxReliability == 11

ComplexityValues ==
  {Rat(k, 2) : k \in 0..MaxComplexity} \cup {RInt(-2), RInt(30)}
ReliabilityValues == {RInt(k) : k \in 0..MaxReliability}
LiquidityValues == {RInt(0), RInt(3), RInt(6), RInt(9)}
PriceImpactValues == {RInt(0), Rat(1, 100), Rat(3, 200), Rat(1, 10)}
GasEfficiencyValues == {RInt(0), RInt(6), RInt(100)}

Metrics(c, r, l, p, g) ==
  [totalFeesUSD |-> RInt(0), totalGasUSD |-> RInt(0), estimatedTime |-> RInt(0),
   priceImpact |-> p, complexityScore |-> c, gasEfficiency |-> g,
   liquidityScore |-> l, bridgeReliability |-> r, slippageTolerance |-> RInt(0)]

ZeroMetrics == Metrics(RInt(0), RInt(0), RInt(0), RInt(0), RInt(0))

InitEstimator ==
  /\ page = "single"
  /\ api = "flaky"
  /\ EngineInit
  /\ \E c \in ComplexityValues, r \in ReliabilityValues, l \in LiquidityValues,
        p \in PriceImpactValues, g \in GasEfficiencyValues,
        route \in {rHop, rSwapBridge} :
        input = [route |-> route, metrics |-> Metrics(c, r, l, p, g)]
  /\ output = NoOutput

estimateSuccess ==
  /\ output = NoOutput
  /\ output' = calculateSuccessProbability(input.route, input.metrics)
  /\ UNCHANGED <<engineVars, input>>

NextEstimator == estimateSuccess

SpecEstimator == InitEstimator /\ [][NextEstimator]_vars


----------------------------------------------------------------------------
(* calculateRiskLevel applied to one set of metrics and one success        *)
(* probability.  The probabilities span the clamp range of                 *)
(* calculateSuccessProbability and sit on both sides of each threshold;    *)
(* the metrics fields the function does not read vary as well.             *)

Pending == [done |-> FALSE]
Returned(value) == [done |-> TRUE, value |-> value]

ProbabilityValues ==
  {RInt(50), RInt(69), RInt(70), Rat(169, 2), RInt(85), RInt(98)}
RiskComplexityValues == {RInt(0), RInt(3), Rat(7, 2), RInt(6), Rat(13, 2)}
RiskReliabilityValues == {RInt(5), Rat(11, 2), RInt(6), RInt(7), RInt(8), Rat(19, 2)}

InitRisk ==
  /\ page = "single"
  /\ api = "flaky"
  /\ EngineInit
  /\ \E c \in RiskComplexityValues, r \in RiskReliabilityValues,
        l \in {RInt(0), RInt(9)}, sp \in ProbabilityValues :
        input = [metrics |-> Metrics(c, r, l, RInt(0), RInt(0)),
                 successProbability |-> sp]
  /\ output = Pending

assessRisk ==
  /\ output = Pending
  /\ output' = Returned(calculateRiskLevel(input.metrics,
                                           input.successProbability))
  /\ UNCHANGED <<engineVars, input>>

NextRisk == assessRisk

SpecRisk == InitRisk /\ [][NextRisk]_vars

----------------------------------------------------------------------------
(* removeDuplicateRoutes applied to a list of routes, and again to its own *)
(* result.  The routes differ from the first one in one component each:    *)
(* the id alone, a chain, a token address, the tools, the order of the     *)
(* tools, and a tool name with a hyphen against the same name as two       *)
(* tools.                                                                  *)

MaxRoutes == 3

USDT1 == Token("0xUSDT1", 1)
DAI10 == Token("0xDAI10", 10)
USDC137 == Token("0xUSDC1", 137)
USDC42161 == Token("0xUSDC10", 42161)

Like(route, id) == [route EXCEPT !.id = id]

DedupeRoutes ==
  {rHop, rHopDup, rAcross, rSwapBridge,
   [Like(rHop, "d1") EXCEPT !.fromChainId = 137, !.fromToken = USDC137],
   [Like(rHop, "d2") EXCEPT !.toChainId = 42161, !.toToken = USDC42161],
   [Like(rHop, "d3") EXCEPT !.fromToken = USDT1],
   [Like(rHop, "d4") EXCEPT !.toToken = DAI10],
   [Like(rSwapBridge, "d5") EXCEPT
      !.steps = <<rSwapBridge.steps[2], rSwapBridge.steps[1]>>],
   [Like(rHop, "d6") EXCEPT
      !.steps = <<[rHop.steps[1] EXCEPT !.tool = "uniswap-v3", !.type = "swap"]>>],
   [Like(rHop, "d7") EXCEPT
      !.steps = <<[rHop.steps[1] EXCEPT !.tool = "uniswap", !.type = "swap"],
                  [rHop.steps[1] EXCEPT !.tool = "v3", !.type = "swap"]>>]}

RouteLists(pool, n) == UNION {[1..k -> pool] : k \in 0..n}

InitDedupe ==
  /\ page = "single"
  /\ api = "flaky"
  /\ EngineInit
  /\ \E routes \in RouteLists(DedupeRoutes, MaxRoutes) : input = [routes |-> routes]
  /\ output = Pending

(* output.value holds the results of the successive applications.          *)
dedupe ==
  /\ output = Pending
  /\ output' = Returned(<<removeDuplicateRoutes(input.routes)>>)
  /\ UNCHANGED <<engineVars, input>>

dedupeAgain ==
  /\ output.done
  /\ Len(output.value) = 1
  /\ output' = Returned(Append(output.value,
                               removeDuplicateRoutes(output.value[1])))
  /\ UNCHANGED <<engineVars, input>>

NextDedupe == dedupe \/ dedupeAgain

SpecDedupe == InitDedupe /\ [][NextDedupe]_vars

----------------------------------------------------------------------------
(* The ranking of fetchAlternativeRoutes applied to the routes the variant *)
(* requests returned.  The routes carry distinct ids, as the routing API   *)
(* issues them; some share a signature, and some tie with another route on *)
(* fees, time, reliability and score under a different bridge.             *)

WithTool(route, id, tool) ==
  [Like(route, id) EXCEPT !.steps = <<[route.steps[1] EXCEPT !.tool = tool]>>]

RankingRoutes ==
  {rHop, rHopDup, rSwapBridge, rAcross,
   WithTool(rAcross, "k1", "avalanche"),
   WithTool(rAcross, "k2", "stargate"),
   [Like(rSwapBridge, "k3") EXCEPT
      !.steps = <<[rSwapBridge.steps[2] EXCEPT !.tool = "arbitrum"]>>]}

InitRanking ==
  /\ page = "single"
  /\ api = "flaky"
  /\ EngineInit
  /\ \E routes \in RouteLists(RankingRoutes, MaxRoutes) :
        /\ routes # <<>>
        /\ input = [routes |-> routes]
  /\ output = Pending

rank ==
  /\ output = Pending
  /\ output' = Returned(BuildComparison(txFull, input.routes))
  /\ UNCHANGED <<engineVars, input>>

NextRanking == rank

SpecRanking == InitRanking /\ [][NextRanking]_vars

----------------------------------------------------------------------------
(* calculateRouteMetrics applied to one route.  The steps are bridges in   *)
(* and out of the reliability table, under either spelling, and a swap;    *)
(* some lack their fee costs, their gas costs, the USD amount of a cost or *)
(* the execution duration, and the route may lack a USD amount.  USD       *)
(* amounts are decimal strings of non-negative amounts; one gas cost       *)
(* carries a string that parses to no number.                              *)

MaxSteps == 2

sHop == rHop.steps[1]
sSwap == rSwapBridge.steps[1]
sStargate == rSwapBridge.steps[2]

MetricsSteps ==
  {sHop, sSwap, sStargate,
   [sHop EXCEPT !.tool = "Hop"],
   [sHop EXCEPT !.tool = "chainflip"],
   [rAcross.steps[1] EXCEPT !.feeCosts = Missing],
   [sHop EXCEPT !.tool = "arbitrum", !.gasCosts = Missing],
   [sStargate EXCEPT !.feeCosts = Some(<<Missing, Some(RInt(2))>>),
                     !.gasCosts = Some(<<Missing>>)],
   [sSwap EXCEPT !.gasCosts = Some(<<Some(NaN), Some(RInt(1))>>)],
   [sHop EXCEPT !.executionDuration = Missing]}

MetricsAmounts ==
  {<<Some(RInt(1000)), Some(RInt(990))>>, <<Missing, Some(RInt(990))>>,
   <<Some(RInt(1000)), Missing>>, <<Some(RInt(0)), Some(RInt(0))>>}

InitMetrics ==
  /\ page = "single"
  /\ api = "flaky"
  /\ EngineInit
  /\ \E steps \in RouteLists(MetricsSteps, MaxSteps), usd \in MetricsAmounts :
        input = [route |-> [rHop EXCEPT !.steps = steps,
                                        !.fromAmountUSD = usd[1],
                                        !.toAmountUSD = usd[2]]]
  /\ output = Pending

measure ==
  /\ output = Pending
  /\ output' = Returned(calculateRouteMetrics(input.route))
  /\ UNCHANGED <<engineVars, input>>

NextMetrics == measure

SpecMetrics == InitMetrics /\ [][NextMetrics]_vars

----------------------------------------------------------------------------
(* The per-route part of fetchAlternativeRoutes applied to one route: the  *)
(* metrics of the route, the success probability of the route under these  *)
(* metrics, and the risk level of both.  The steps are bridges, swaps and  *)
(* steps of type lifi, with and without costs, through tools in and out of *)
(* the liquidity lists, the reliability table and the bridge list.         *)

Free(tool, type) == Step(tool, type, <<>>, <<>>, 60, RInt(0))

AssessedSteps ==
  {sHop, sSwap, sStargate, rAcross.steps[1],
   Free("hop", "cross"), Free("Hop", "cross"), Free("arbitrum", "cross"),
   [Free("polygon", "cross") EXCEPT !.feeCosts = Missing, !.gasCosts = Missing],
   Free("1inch", "lifi"), Free("dodo", "swap"), Free("relay", "lifi")}

AssessedAmounts ==
  {<<RInt(1000), RInt(990)>>, <<RInt(1000), RInt(900)>>, <<RInt(100), RInt(99)>>}

Assessment(route) ==
  CHOOSE r \in
    {CHOOSE q \in
       {[metrics |-> metrics, successProbability |-> successProbability,
         riskLevel |-> calculateRiskLevel(metrics, successProbability)] :
          successProbability \in {calculateSuccessProbability(route, metrics)}} :
       TRUE :
     metrics \in {calculateRouteMetrics(route)}} : TRUE

InitAssessment ==
  /\ page = "single"
  /\ api = "flaky"
  /\ EngineInit
  /\ \E steps \in RouteLists(AssessedSteps, MaxSteps), usd \in AssessedAmounts :
        input = [route |-> [rHop EXCEPT !.steps = steps,
                                        !.fromAmountUSD = Some(usd[1]),
                                        !.toAmountUSD = Some(usd[2])]]
  /\ output = Pending

assess ==
  /\ output = Pending
  /\ output' = Returned(Assessment(input.route))
  /\ UNCHANGED <<engineVars, input>>

NextAssessment == assess

SpecAssessment == InitAssessment /\ [][NextAssessment]_vars

----------------------------------------------------------------------------
(* analyzeFailureReasons applied to a failed transaction, and the          *)
(* comparison fetchAlternativeRoutes builds for it from the routes         *)
(* received.  The substatus is each of the known ones, two others, empty   *)
(* or absent; the message is present, empty or absent.                     *)

Substatuses ==
  {"SLIPPAGE_EXCEEDED", "INSUFFICIENT_BALANCE", "INSUFFICIENT_ALLOWANCE",
   "OUT_OF_GAS", "BRIDGE_NOT_AVAILABLE", "UNKNOWN_ERROR", "REFUNDED", "",
   Undefined}
SubstatusMessages == {Undefined, "", "reverted", "The transfer was refunded"}

ReceivedRoutes == {<<>>, <<rHop>>, <<rSwapBridge, rAcross>>}

InitReasons ==
  /\ page = "single"
  /\ api = "flaky"
  /\ EngineInit
  /\ \E substatus \in Substatuses, message \in SubstatusMessages,
        routes \in ReceivedRoutes :
        input = [transactionData |->
                   [txFull EXCEPT !.substatus = substatus,
                                  !.substatusMessage = message],
                 routes |-> routes]
  /\ output = Pending

analyze ==
  /\ output = Pending
  /\ output' = Returned([reasons |-> analyzeFailureReasons(input.transactionData),
                         comparison |-> Compare(input.transactionData,
                                                input.routes)])
  /\ UNCHANGED <<engineVars, input>>

NextReasons == analyze

SpecReasons == InitReasons /\ [][NextReasons]_vars

----------------------------------------------------------------------------
(* generateAlternativeConfigs applied to base parameters that carry no     *)
(* options, an empty options object, or options the variants override and  *)
(* options they do not.                                                    *)

BaseOptionSets ==
  {<<>>,
   [integrator |-> "lifi-lens"],
   [integrator |-> "lifi-lens", slippage |-> 5, order |-> "FASTEST"],
   [bridges |-> [deny |-> <<"hop">>], fee |-> 3, allowSwitchChain |-> FALSE],
   [exchanges |-> [prefer |-> <<"dodo">>], maxPriceImpact |-> 400]}

BaseParameters ==
  {[fromChainId |-> fc, fromTokenAddress |-> ft, fromAmount |-> amount,
    fromAddress |-> "0xFrom", toAddress |-> to,
    toChainId |-> tc, toTokenAddress |-> USDC10.address] :
     fc \in {1, 137}, ft \in {USDC1.address, USDT1.address},
     amount \in {"1000", "0"}, to \in {"0xTo", Undefined}, tc \in {10, 42161}}

InitConfigs ==
  /\ page = "single"
  /\ api = "flaky"
  /\ EngineInit
  /\ \E base \in BaseParameters :
        \/ input = [baseParams |-> base]
        \/ \E options \in BaseOptionSets :
              input = [baseParams |-> ("options" :> options) @@ base]
  /\ output = Pending

configure ==
  /\ output = Pending
  /\ output' = Returned(generateAlternativeConfigs(input.baseParams))
  /\ UNCHANGED <<engineVars, input>>

NextConfigs == configure

SpecConfigs == InitConfigs /\ [][NextConfigs]_vars

----------------------------------------------------------------------------
(* pollTransactionStatus.  One call of it is followed from await to await: *)
(* input holds its arguments, output its locals and what it has done so    *)
(* far.  What the API answers to each status request is not in the         *)
(* caller's hands: every request ends in any of the responses or in an     *)
(* error.  The onUpdate callback, when given, returns normally.            *)

(* The attempts allowed when the options give no maxAttempts.              *)
DefaultMaxAttempts == 60

(* The largest maxAttempts the options give.                               *)
MaxPollAttempts == 3

(* isValidTxHash: /^0x[a-fA-F0-9]{64}$/ on a hash told by its prefix, the  *)
(* number of characters after it and whether they are all hex digits.      *)
isValidTxHash(txHash) ==
  txHash.prefix = "0x" /\ txHash.length = 64 /\ txHash.hex

(* parseStatusResponse: the flags the polling loop reads.                  *)
parseStatusResponse(response) ==
  [status |-> response.status,
   substatus |-> response.substatus,
   isCompleted |-> response.status = "DONE" /\ response.substatus = "COMPLETED",
   isPending |-> response.status = "PENDING",
   isFailed |-> response.status = "FAILED"]

(* options?.maxAttempts ?? 60                                              *)
MaxAttemptsOf(options) ==
  IF options = Missing \/ options[1].maxAttempts = Missing
  THEN DefaultMaxAttempts
  ELSE options[1].maxAttempts[1]

(* options?.onUpdate is given.                                             *)
HasOnUpdate(options) == options # Missing /\ options[1].onUpdate

(* The loop test, and the same with the bound included.                    *)
PollAgainInclusive(attempts, maxAttempts) == attempts <= maxAttempts
PollAgain(attempts, maxAttempts) == attempts < maxAttempts

(* status.isCompleted || status.isFailed                                   *)
StopsPolling(status) == status.isCompleted \/ status.isFailed

(* The errors thrown: a plain Error carries no isRetryable, an ApiError    *)
(* carries one.                                                            *)
InvalidHashError == [message |-> "Invalid transaction hash format",
                     isRetryable |-> Missing]
TimedOutError == [message |-> "Transaction status polling timed out",
                  isRetryable |-> Missing]
ApiErrors ==
  {[message |-> "API error", isRetryable |-> r] :
     r \in {Some(TRUE), Some(FALSE), Missing}}

(* !apiError.isRetryable                                                   *)
Rethrown(error) == error.isRetryable # Some(TRUE)

(* What a status request is answered with.                                 *)
StatusResponses ==
  {[status |-> "NOT_FOUND", substatus |-> Undefined],
   [status |-> "INVALID", substatus |-> Undefined],
   [status |-> "PENDING", substatus |-> "WAIT_SOURCE_CONFIRMATIONS"],
   [status |-> "PENDING", substatus |-> "REFUND_IN_PROGRESS"],
   [status |-> "DONE", substatus |-> "COMPLETED"],
   [status |-> "DONE", substatus |-> "PARTIAL"],
   [status |-> "DONE", substatus |-> "REFUNDED"],
   [status |-> "DONE", substatus |-> Undefined],
   [status |-> "FAILED", substatus |-> "OUT_OF_GAS"],
   [status |-> "FAILED", substatus |-> Undefined]}

TxHashes ==
  {[prefix |-> "0x", length |-> 64, hex |-> TRUE],
   [prefix |-> "0x", length |-> 40, hex |-> TRUE],
   [prefix |-> "0x", length |-> 64, hex |-> FALSE],
   [prefix |-> "", length |-> 64, hex |-> TRUE]}

PollOptions ==
  {Missing} \cup
  {Some([maxAttempts |-> m, onUpdate |-> u]) :
     m \in {Missing, Some(0), Some(1), Some(MaxPollAttempts)},
     u \in BOOLEAN}

(* The transaction is finished: its status is DONE or FAILED.              *)
IsFinished(status) == status.status \in {"DONE", "FAILED"}

(* The state at the call.  attempts is the local of that name; requests    *)
(* counts the status requests sent; finished is the first response that    *)
(* reported a finished transaction, updates how often onUpdate was called  *)
(* with it and requestedAfter whether a request was sent after it;         *)
(* outcome is what the call returned or threw.                             *)
InitPoll ==
  /\ page = "single"
  /\ api = "flaky"
  /\ EngineInit
  /\ \E txHash \in TxHashes, options \in PollOptions :
        input = [params |-> [txHash |-> txHash], options |-> options]
  /\ output = [pc |-> "loop", attempts |-> 0, requests |-> 0,
               finished |-> Missing, updates |-> 0, requestedAfter |-> FALSE,
               outcome |-> Missing]

(* The loop test passes and getTransactionStatus sends the request.        *)
requestStatus ==
  /\ output.pc = "loop"
  /\ PollAgain(output.attempts, MaxAttemptsOf(input.options))
  /\ isValidTxHash(input.params.txHash)
  /\ output' = [output EXCEPT !.pc = "requesting",
                              !.requests = @ + 1,
                              !.requestedAfter = output.finished # Missing]
  /\ UNCHANGED <<engineVars, input>>

(* The loop test passes and getTransactionStatus throws on the hash; the   *)
(* error carries no isRetryable and the loop rethrows it.                  *)
rejectHash ==
  /\ output.pc = "loop"
  /\ PollAgain(output.attempts, MaxAttemptsOf(input.options))
  /\ ~isValidTxHash(input.params.txHash)
  /\ output' = [output EXCEPT !.pc = "thrown",
                              !.outcome = Some(InvalidHashError)]
  /\ UNCHANGED <<engineVars, input>>

(* The loop test fails.                                                    *)
timeOut ==
  /\ output.pc = "loop"
  /\ ~PollAgain(output.attempts, MaxAttemptsOf(input.options))
  /\ output' = [output EXCEPT !.pc = "thrown",
                              !.outcome = Some(TimedOutError)]
  /\ UNCHANGED <<engineVars, input>>

(* The request is answered: onUpdate, then return or start the wait.       *)
receiveStatus ==
  /\ output.pc = "requesting"
  /\ \E response \in StatusResponses :
       \E status \in {parseStatusResponse(response)} :
         LET first == output.finished = Missing /\ IsFinished(status)
             updated == IF first /\ HasOnUpdate(input.options)
                        THEN 1 ELSE output.updates
             seen == IF first THEN Some(status) ELSE output.finished
         IN  output' =
               IF StopsPolling(status)
               THEN [output EXCEPT !.pc = "returned",
                                   !.finished = seen,
                                   !.updates = updated,
                                   !.outcome = Some(status)]
               ELSE [output EXCEPT !.pc = "waiting",
                                   !.finished = seen,
                                   !.updates = updated]
  /\ UNCHANGED <<engineVars, input>>

(* The request throws: rethrow, or count the attempt and start the wait.   *)
failStatus ==
  /\ output.pc = "requesting"
  /\ \E error \in ApiErrors :
       output' =
         IF Rethrown(error)
         THEN [output EXCEPT !.pc = "thrown", !.outcome = Some(error)]
         ELSE [output EXCEPT !.pc = "backoff", !.attempts = @ + 1]
  /\ UNCHANGED <<engineVars, input>>

(* The wait after a status ends: the attempt is counted.                   *)
waited ==
  /\ output.pc = "waiting"
  /\ output' = [output EXCEPT !.pc = "loop", !.attempts = @ + 1]
  /\ UNCHANGED <<engineVars, input>>

(* The wait after a retryable error ends.                                  *)
backedOff ==
  /\ output.pc = "backoff"
  /\ output' = [output EXCEPT !.pc = "loop"]
  /\ UNCHANGED <<engineVars, input>>

NextPoll ==
  \/ requestStatus
  \/ rejectHash
  \/ timeOut
  \/ receiveStatus
  \/ failStatus
  \/ waited
  \/ backedOff

SpecPoll == InitPoll /\ [][NextPoll]_vars

(* Every request is answered or fails (the client aborts it after its      *)
(* timeout) and every timer fires.                                         *)
LiveSpecPoll == SpecPoll /\ WF_vars(NextPoll)

----------------------------------------------------------------------------
(* Properties.                                                             *)

Started(c) == pc[c] # "idle"
PastExtraction(c) == Started(c) /\ HasBothLegs(extractRouteParameters(tx[c]))
RequestsOf(c) == {r \in network : r.call = c}

(* What the variants that succeeded returned, in variant order.            *)
SucceededRoutes(c) ==
  Flat([i \in Variants |->
          IF vstate[c][i] = "fulfilled" THEN Api(api).routes[i] ELSE <<>>])

(* C1: a failed variant call, or any number of them, is swallowed and      *)
(* counts as an empty route list: no variant promise is ever rejected,     *)
(* the call resolves (it does not throw), the routes of the variants that  *)
(* succeeded are exactly what is passed on to deduplication, and the       *)
(* result is null only if one of those routes is malformed.                *)
C1_VariantFailureSwallowed ==
  \A c \in Calls :
     /\ \A i \in Variants : vstate[c][i] # "rejected"
     /\ \A i \in Variants : vstate[c][i] = "caught" => vroutes[c][i] = <<>>
     /\ (PastExtraction(c) /\ pc[c] # "awaiting"
           /\ \E i \in Variants : vstate[c][i] = "caught")
        => /\ pc[c] = "resolved"
           /\ allRoutes[c] = SucceededRoutes(c)
           /\ (result[c].kind = "null" => Raises(allRoutes[c]))
           /\ (~Raises(allRoutes[c]) => result[c].kind = "comparison")

C1_Witness ==
  \E c \in Calls :
     /\ pc[c] = "resolved"
     /\ \E i \in Variants : vstate[c][i] = "caught"
     /\ \E i \in Variants : vstate[c][i] = "fulfilled" /\ vroutes[c][i] # <<>>
     /\ result[c].kind = "comparison"
     /\ Len(result[c].alternativeRoutes) > 0

(* C2: all 7 variant requests are issued before any is awaited, and the    *)
(* call produces its result only when each of the 7 has settled: while a   *)
(* variant is pending nothing has been returned.                           *)
C2_JointAwait ==
  \A c \in Calls :
     /\ PastExtraction(c) =>
          \A i \in Variants :
             \/ \E r \in RequestsOf(c) : r.variant = i /\ r.attempt = 1
             \/ (vstate[c][i] = "fulfilled" /\ attempt[c][i] = 0)
     /\ (\E i \in Variants : vstate[c][i] \in {"pending", "sleeping"})
          => pc[c] = "awaiting" /\ result[c] = NoResult /\ view[c].loading
     /\ (PastExtraction(c) /\ pc[c] = "resolved")
          => \A i \in Variants : Settled(vstate[c][i])

C2_Witness ==
  \E c \in Calls :
     /\ pc[c] = "resolved"
     /\ result[c].kind = "comparison"
     /\ \A i \in Variants : Settled(vstate[c][i])
     /\ \E i \in Variants : attempt[c][i] = maxRetries

(* The transaction data cannot determine both legs of the route.           *)
Insufficient(transactionData) ==
  LET sending == transactionData.sending
      receiving == transactionData.receiving
      steps == sending.includedSteps
  IN  \/ sending.token = NoToken
      \/ sending.chainId = 0
      \/ /\ ~(receiving.token # NoToken /\ receiving.chainId # 0)
         /\ \/ Len(steps) = 0
            \/ (~steps[Len(steps)].isNull /\ steps[Len(steps)].toToken = NoToken)

C4_NoCandidates ==
  \A c \in Calls :
     (/\ PastExtraction(c)
      /\ pc[c] # "awaiting"
      /\ \A i \in Variants :
            \/ vstate[c][i] = "caught"
            \/ (vstate[c][i] = "fulfilled" /\ Api(api).routes[i] = <<>>))
        => /\ pc[c] = "resolved"
           /\ result[c].kind = "comparison"
           /\ result[c].alternativeRoutes = <<>>
           /\ result[c].recommendations = <<>>
           /\ result[c].failureReasons = <<"No alternative routes found">>

C4_Witness ==
  \E c \in Calls :
     /\ pc[c] = "resolved"
     /\ \A i \in Variants : vstate[c][i] = "caught"
     /\ result[c].failureReasons = <<"No alternative routes found">>

(* C5: past parameter extraction the call never throws, an error raised    *)
(* while processing the routes makes it resolve to null, and a call that   *)
(* throws has thrown inside extractRouteParameters, before any request.    *)
C5_OnlyExtractionThrows ==
  \A c \in Calls :
     /\ PastExtraction(c) => pc[c] # "thrown"
     /\ (pc[c] = "resolved" /\ Raises(allRoutes[c])) => result[c] = NullResult
     /\ pc[c] = "thrown"
          => /\ extractRouteParameters(tx[c]).kind = "throw"
             /\ RequestsOf(c) = {}

C5_Witness ==
  \E c \in Calls :
     /\ pc[c] = "resolved"
     /\ Raises(allRoutes[c])
     /\ result[c] = NullResult

(* C6: the component shows a different state for each outcome: the list    *)
(* for a comparison with alternatives, the empty state for a comparison    *)
(* without, and the error state for a null result.                         *)
C6_ThreeDisplays ==
  \A c \in Calls :
     (pc[c] = "resolved" /\ ~view[c].loading)
        => Display(view[c]) =
             IF result[c].kind = "null" THEN "error"
             ELSE IF Len(result[c].alternativeRoutes) = 0 THEN "empty"
             ELSE "list"

AloneResult(c) ==
  Compare(tx[c],
          Flat([i \in Variants |->
                  IF "ok" \in Api(api).outcomes[i] THEN Api(api).routes[i]
                  ELSE <<>>]))

ServedFromCache(c, i) == PastExtraction(c) /\ attempt[c][i] = 0

C8_RequestsComplete ==
  \A r \in network :
     LET params == r.request.params
         sending == tx[r.call].sending
         receiving == tx[r.call].receiving
         steps == sending.includedSteps
     IN  /\ params.fromChainId # 0
         /\ params.toChainId # 0
         /\ params.fromTokenAddress # Undefined
         /\ params.toTokenAddress # Undefined
         /\ params.fromChainId = sending.chainId
         /\ params.fromTokenAddress = sending.token.address
         /\ \/ /\ params.toChainId = receiving.chainId
               /\ params.toTokenAddress = receiving.token.address
            \/ /\ Len(steps) > 0
               /\ params.toChainId = steps[Len(steps)].toToken.chainId
               /\ params.toTokenAddress = steps[Len(steps)].toToken.address

C8_Witness ==
  \E r \in network :
     /\ tx[r.call] = txSteps
     /\ r.variant = 7
     /\ r.request.params.toTokenAddress = USDC10.address

(* C9: a call that is waiting for its variants eventually resolves, and    *)
(* no variant makes more than maxRetries attempts.                         *)
C9_EventuallyResolves ==
  /\ \A c \in Calls : (pc[c] = "awaiting") ~> (pc[c] = "resolved")
  /\ [](\A c \in Calls : \A i \in Variants : attempt[c][i] <= maxRetries)

C9_Witness ==
  \E c \in Calls :
     /\ pc[c] = "resolved"
     /\ \E i \in Variants : attempt[c][i] = maxRetries /\ vstate[c][i] = "caught"

(* C10: calculateSuccessProbability returns a value in [50, 98] for any    *)
(* route and any metrics that are finite numbers, all-zero metrics         *)
(* included.                                                               *)
C10_ProbabilityBounded ==
  output # NoOutput => RLe(RInt(50), output) /\ RLe(output, RInt(98))

C10_Witness ==
  /\ input.metrics = ZeroMetrics
  /\ RLt(RawProbability(input.route, input.metrics), RInt(50))
  /\ output = RInt(50)

(* C11: the risk level is determined by success probability, complexity    *)
(* score and bridge reliability alone: HIGH if the probability is below    *)
(* 70 or the complexity above 6 or the reliability below 6; otherwise      *)
(* MEDIUM if the probability is below 85 or the complexity above 3 or the  *)
(* reliability below 8; otherwise LOW.                                     *)
C11_RiskLevel ==
  output.done =>
    LET p == input.successProbability
        c == input.metrics.complexityScore
        r == input.metrics.bridgeReliability
        high == RLt(p, RInt(70)) \/ RGt(c, RInt(6)) \/ RLt(r, RInt(6))
        medium == RLt(p, RInt(85)) \/ RGt(c, RInt(3)) \/ RLt(r, RInt(8))
    IN  output.value = IF high THEN "HIGH" ELSE IF medium THEN "MEDIUM" ELSE "LOW"

C11_Witness ==
  /\ output.done
  /\ input.successProbability = RInt(85)
  /\ input.metrics.complexityScore = RInt(3)
  /\ input.metrics.bridgeReliability = RInt(8)
  /\ input.metrics.liquidityScore = RInt(0)
  /\ output.value = "LOW"

(* The five components the signature is built from.                        *)
Structure(route) ==
  <<route.fromChainId, route.toChainId, route.fromToken.address,
    route.toToken.address, SeqMap(StepTool, route.steps)>>

(* The routes that no earlier route of the list equals under Key, in the   *)
(* order of the list.                                                      *)
FirstBy(Key(_), routes) ==
  LET kept == {j \in 1..Len(routes) :
                 \A i \in 1..(j - 1) : Key(routes[i]) # Key(routes[j])}
      RECURSIVE At(_)
      At(j) == IF j > Len(routes) THEN <<>>
               ELSE IF j \in kept THEN <<routes[j]>> \o At(j + 1)
               ELSE At(j + 1)
  IN  At(1)

(* C12: deduplication drops a route exactly when an earlier route of the   *)
(* list has the same source chain, destination chain, source token         *)
(* address, destination token address and ordered tool names; routes that  *)
(* differ in any of these are both retained.                               *)
C12_CollapseIffIdentical ==
  output.done => output.value[1] = FirstBy(Structure, input.routes)

(* C13: the deduplicated list keeps, for every signature, exactly the      *)
(* first route that carries it, in the order of first appearance; routes   *)
(* with the same chains, tokens and tools but different ids leave only the *)
(* first of them.                                                          *)
C13_FirstOfEachSignature ==
  output.done => output.value[1] = FirstBy(Signature, input.routes)

C13_Witness ==
  /\ output.done
  /\ input.routes = <<rHop, rAcross, rHopDup>>
  /\ output.value[1] = <<rHop, rAcross>>

(* C14: deduplicating a deduplicated list changes nothing.                 *)
C14_Idempotent ==
  output.done /\ Len(output.value) = 2 => output.value[2] = output.value[1]

C14_Witness ==
  /\ output.done
  /\ Len(output.value) = 2
  /\ Len(output.value[1]) = 2
  /\ Len(input.routes) = 3

(* The optimal score as the weighted sum of the four part scores.          *)
WeightedScore(metrics) ==
  LET Floor0(x) == IF RLt(x, RInt(0)) THEN RInt(0) ELSE x
      fee == Floor0(RSub(RInt(100), metrics.totalFeesUSD))
      time == Floor0(RSub(RInt(100),
                          RMul(RDiv(metrics.estimatedTime, RInt(60)), RInt(2))))
      reliability == RMul(metrics.bridgeReliability, RInt(10))
      complexity == Floor0(RSub(RInt(100),
                                RMul(metrics.complexityScore, RInt(10))))
  IN  RAdd(RAdd(RMul(Rat(3, 10), fee), RMul(Rat(2, 10), time)),
           RAdd(RMul(Rat(3, 10), reliability), RMul(Rat(2, 10), complexity)))

(* The place of a route's first appearance in a list.                      *)
FirstIndex(route, routes) ==
  CHOOSE i \in 1..Len(routes) :
     routes[i] = route /\ \A j \in 1..(i - 1) : routes[j] # route

(* C15: in a comparison, alternativeRoutes is ordered best-first: of two   *)
(* consecutive entries the first has an optimal score greater than or      *)
(* equal to the second's, and entries with equal scores keep their order   *)
(* of first appearance among the routes received.                          *)
C15_RankedBestFirst ==
  output.done =>
    \E ranked \in {output.value.alternativeRoutes} :
       \E score \in {[i \in 1..Len(ranked) |-> WeightedScore(ranked[i].metrics)]} :
          /\ \A i \in 1..(Len(ranked) - 1) : RGe(score[i], score[i + 1])
          /\ \A i, j \in 1..Len(ranked) :
                i < j /\ score[i] = score[j] =>
                  FirstIndex(ranked[i].route, input.routes)
                    < FirstIndex(ranked[j].route, input.routes)

C15_Witness ==
  /\ output.done
  /\ input.routes = <<rSwapBridge, WithTool(rAcross, "k1", "avalanche"), rAcross>>
  /\ [i \in 1..3 |-> output.value.alternativeRoutes[i].route.id]
       = <<"k1", "r4", "r3">>

Labeled(label) ==
  {i \in 1..Len(output.value.alternativeRoutes) :
     output.value.alternativeRoutes[i].recommendation = label}

(* C16: among the deduplicated candidates of one comparison at most one    *)
(* route is labeled CHEAPEST, at most one FASTEST and at most one SAFEST,   *)
(* also when candidates tie on fees, time or reliability.                  *)
C16_PrimaryLabelsUnique ==
  output.done =>
    \A label \in {"CHEAPEST", "FASTEST", "SAFEST"} :
       Cardinality(Labeled(label)) <= 1

(* Two candidates tied on fees, time and reliability: one label each.      *)
C16_Witness ==
  /\ output.done
  /\ input.routes = <<WithTool(rAcross, "k1", "avalanche"), rHop, rAcross>>
  /\ LET metrics == [i \in 1..3 |-> output.value.alternativeRoutes[i].metrics]
     IN  \E i, j \in 1..3 :
            /\ i # j
            /\ metrics[i].totalFeesUSD = metrics[j].totalFeesUSD
            /\ metrics[i].estimatedTime = metrics[j].estimatedTime
            /\ output.value.alternativeRoutes[i].recommendation = "CHEAPEST"
            /\ output.value.alternativeRoutes[j].recommendation = "ALTERNATIVE"
  /\ Cardinality(Labeled("SAFEST")) = 1

(* Whether entry a is ahead of every other entry under a ranking in which  *)
(* a is better than b by Better(a, b); Tied(a, b) says whether the         *)
(* earlier of two equal candidates is ahead of the later one.              *)
Leads(Better(_, _), Tied(_, _), a, ranked) ==
  \A i \in 1..Len(ranked) :
     \E b \in {ranked[i]} :
        \/ b.route.id = a.route.id
        \/ Better(a, b)
        \/ ~Better(b, a) /\ Tied(a, b)

LowerFees(a, b) == RLt(a.metrics.totalFeesUSD, b.metrics.totalFeesUSD)
LowerTime(a, b) == RLt(a.metrics.estimatedTime, b.metrics.estimatedTime)
HigherReliability(a, b) ==
  RGt(a.metrics.bridgeReliability, b.metrics.bridgeReliability)
HigherScore(a, b) ==
  RGt(WeightedScore(a.metrics), WeightedScore(b.metrics))
AnyOrder(a, b) == TRUE
Earlier(a, b) ==
  FirstIndex(a.route, input.routes) < FirstIndex(b.route, input.routes)

Category(Tied(_, _), a, ranked) ==
  IF Leads(LowerFees, Tied, a, ranked) THEN "CHEAPEST"
  ELSE IF Leads(LowerTime, Tied, a, ranked) THEN "FASTEST"
  ELSE IF Leads(HigherReliability, Tied, a, ranked) THEN "SAFEST"
  ELSE IF Leads(HigherScore, AnyOrder, a, ranked) THEN "OPTIMAL"
  ELSE "ALTERNATIVE"

(* C17: each route gets exactly one category by priority: CHEAPEST if it   *)
(* has the lowest totalFeesUSD among all candidates; otherwise FASTEST if  *)
(* it has the lowest estimatedTime; otherwise SAFEST if it has the highest *)
(* bridgeReliability; otherwise OPTIMAL if its optimal score is greater    *)
(* than or equal to every other candidate's; otherwise ALTERNATIVE.        *)
C17_CategoryByLowest ==
  output.done =>
    \E ranked \in {output.value.alternativeRoutes} :
       \A i \in 1..Len(ranked) :
          ranked[i].recommendation = Category(AnyOrder, ranked[i], ranked)

(* C17, with ties: a route is CHEAPEST if it is the earliest candidate     *)
(* among those with the lowest totalFeesUSD; otherwise FASTEST if it is    *)
(* the earliest among those with the lowest estimatedTime; otherwise       *)
(* SAFEST if it is the earliest among those with the highest               *)
(* bridgeReliability; otherwise OPTIMAL if its optimal score is greater    *)
(* than or equal to every other candidate's; otherwise ALTERNATIVE.        *)
C17_CategoryByFirstRanked ==
  output.done =>
    \E ranked \in {output.value.alternativeRoutes} :
       \A i \in 1..Len(ranked) :
          /\ ranked[i].recommendation = Category(Earlier, ranked[i], ranked)
          /\ output.value.recommendations[i].type = ranked[i].recommendation

(* A candidate tied with an earlier one on fees, time and reliability.     *)
C17_Witness ==
  /\ output.done
  /\ input.routes = <<rAcross, WithTool(rAcross, "k1", "avalanche")>>
  /\ [i \in 1..2 |-> <<output.value.alternativeRoutes[i].route.id,
                       output.value.alternativeRoutes[i].recommendation>>]
       = << <<"r4", "CHEAPEST">>, <<"k1", "OPTIMAL">> >>

(* C18: the metrics of any route satisfy totalGasUSD <= totalFeesUSD.      *)
C18_GasWithinFees ==
  output.done => RLe(output.value.totalGasUSD, output.value.totalFeesUSD)

(* A step with fee costs on top of gas, and a step with gas costs alone.   *)
C18_Witness ==
  /\ output.done
  /\ input.route.steps = <<sHop, [rAcross.steps[1] EXCEPT !.feeCosts = Missing]>>
  /\ output.value.totalGasUSD = RInt(3)
  /\ output.value.totalFeesUSD = Rat(9, 2)

(* A route with every missing property filled in with zero (a missing      *)
(* cost list with no costs).                                               *)
ZeroCost(amountUSD) == IF amountUSD = Missing THEN Some(RInt(0)) ELSE amountUSD
ZeroCosts(costs) ==
  IF costs = Missing THEN Some(<<>>) ELSE Some(SeqMap(ZeroCost, costs[1]))
ZeroStep(step) ==
  [step EXCEPT !.feeCosts = ZeroCosts(step.feeCosts),
               !.gasCosts = ZeroCosts(step.gasCosts),
               !.executionDuration =
                  IF step.executionDuration = Missing THEN Some(0)
                  ELSE step.executionDuration]
ZeroFilled(route) ==
  [route EXCEPT !.steps = SeqMap(ZeroStep, route.steps),
                !.fromAmountUSD = ZeroCost(route.fromAmountUSD),
                !.toAmountUSD = ZeroCost(route.toAmountUSD)]

(* C19: calculateRouteMetrics returns, for any route, steps without fee    *)
(* costs, gas costs, USD amounts or execution duration and routes without  *)
(* a USD amount included, the metrics in which every missing property has  *)
(* contributed zero, and leaves the route as it was.                       *)
C19_MissingCountsAsZero ==
  output.done => output.value = calculateRouteMetrics(ZeroFilled(input.route))

(* C20: bridgeReliability is 9 for a route without a step of type cross,   *)
(* and otherwise the mean over the cross steps of the table value of the   *)
(* tool, looked up without regard to case, 5 for a tool outside the table; *)
(* it lies in [5, 9.5].                                                    *)
C20_BridgeReliability ==
  output.done =>
    \E steps \in {input.route.steps} :
       \E cross \in {{i \in 1..Len(steps) : steps[i].type = "cross"}} :
          /\ output.value.bridgeReliability =
               IF cross = {} THEN RInt(9)
               ELSE RDiv(RSum([i \in 1..Len(steps) |->
                                 IF i \in cross
                                 THEN reliabilityScores(toLowerCase(steps[i].tool))
                                 ELSE RInt(0)]),
                         RInt(Cardinality(cross)))
          /\ RLe(RInt(5), output.value.bridgeReliability)
          /\ RLe(output.value.bridgeReliability, Rat(19, 2))

(* A bridge of the table spelled with a capital and a bridge outside the   *)
(* table: the mean of 9 and 5.                                             *)
C20_Witness ==
  /\ output.done
  /\ input.route.steps = <<[sHop EXCEPT !.tool = "Hop"], sStargate>>
  /\ output.value.bridgeReliability = RInt(7)

(* The scenario route: 1000 USD in, 990 USD out, and a single step, of     *)
(* type cross, through a tool of table reliability 9, that lists no fee    *)
(* and no gas cost.                                                        *)
IsScenarioRoute(route) ==
  /\ route.fromAmountUSD = Some(RInt(1000))
  /\ route.toAmountUSD = Some(RInt(990))
  /\ Len(route.steps) = 1
  /\ route.steps[1].type = "cross"
  /\ reliabilityScores(toLowerCase(route.steps[1].tool)) = RInt(9)
  /\ route.steps[1].feeCosts \in {Missing, Some(<<>>)}
  /\ route.steps[1].gasCosts \in {Missing, Some(<<>>)}

(* C21: for a route with fromAmountUSD 1000, toAmountUSD 990, one step, of *)
(* type cross through a tool of table reliability 9, and no fee or gas     *)
(* costs, priceImpact is 0.01, bridgeReliability is 9 and the risk level   *)
(* is LOW or MEDIUM, never HIGH.                                           *)
C21_ScenarioRoute ==
  output.done /\ IsScenarioRoute(input.route) =>
    /\ output.value.metrics.priceImpact = Rat(1, 100)
    /\ output.value.metrics.bridgeReliability = RInt(9)
    /\ output.value.riskLevel \in {"LOW", "MEDIUM"}

C21_Witness ==
  /\ output.done
  /\ IsScenarioRoute(input.route)
  /\ input.route.steps[1].tool = "Hop"
  /\ output.value.successProbability = RInt(71)
  /\ output.value.riskLevel = "MEDIUM"

(* C25: for a route assessed with its own metrics the success probability  *)
(* is at most 80, so the risk level is never LOW: a tool of the high or    *)
(* medium liquidity lists is not in the bridge list, so one of the         *)
(* liquidity reduction and the unknown-bridge reduction always applies.    *)
C25_NeverLowRisk ==
  output.done =>
    /\ RLe(output.value.successProbability, RInt(80))
    /\ output.value.riskLevel # "LOW"
    /\ (highLiquidityTools \cup mediumLiquidityTools) \cap wellKnownBridges = {}

(* The bound is met by a single step of type lifi through a high-liquidity *)
(* tool without costs.                                                     *)
C25_Witness ==
  /\ output.done
  /\ input.route.steps = <<Free("1inch", "lifi")>>
  /\ output.value.successProbability = RInt(80)
  /\ output.value.riskLevel = "MEDIUM"

KnownSubstatuses ==
  [SLIPPAGE_EXCEEDED |-> "Price moved beyond slippage tolerance during execution",
   INSUFFICIENT_BALANCE |-> "Insufficient balance to complete the transaction",
   INSUFFICIENT_ALLOWANCE |-> "Token allowance was insufficient",
   OUT_OF_GAS |-> "Transaction ran out of gas",
   BRIDGE_NOT_AVAILABLE |-> "Bridge service was unavailable"]

Present(s) == s # Undefined /\ s # ""

(* C22: a known substatus gives its fixed sentence and any other present   *)
(* substatus the 'unknown reasons' sentence, followed by the substatus     *)
(* message if there is one; INSUFFICIENT_BALANCE without a message gives   *)
(* exactly the insufficient-balance sentence.                              *)
C22_ReasonsBySubstatus ==
  output.done =>
    \E substatus \in {input.transactionData.substatus},
       message \in {input.transactionData.substatusMessage} :
       /\ Present(substatus) =>
            output.value.reasons =
              <<IF substatus \in DOMAIN KnownSubstatuses
                THEN KnownSubstatuses[substatus]
                ELSE "Transaction failed due to unknown reasons">>
              \o (IF Present(message) THEN <<message>> ELSE <<>>)
       /\ substatus = "INSUFFICIENT_BALANCE" /\ message = Undefined =>
            output.value.reasons =
              <<"Insufficient balance to complete the transaction">>

C22_Witness ==
  /\ output.done
  /\ input.transactionData.substatus = "REFUNDED"
  /\ output.value.reasons = <<"Transaction failed due to unknown reasons",
                              "The transfer was refunded">>

(* C23: the list of failure reasons is never empty: it is exactly          *)
(* "Transaction failed" for a transaction with neither substatus nor       *)
(* substatus message, and every comparison carries a non-empty             *)
(* failureReasons list.                                                    *)
C23_ReasonsNeverEmpty ==
  output.done =>
    /\ output.value.reasons # <<>>
    /\ ~Present(input.transactionData.substatus)
         /\ ~Present(input.transactionData.substatusMessage) =>
           output.value.reasons = <<"Transaction failed">>
    /\ output.value.comparison.kind = "comparison" =>
         output.value.comparison.failureReasons # <<>>

C23_Witness ==
  /\ output.done
  /\ input.transactionData.substatus = Undefined
  /\ input.transactionData.substatusMessage = Undefined
  /\ input.routes = <<rHop>>
  /\ output.value.comparison.kind = "comparison"
  /\ output.value.comparison.failureReasons = <<"Transaction failed">>

(* What each of the 7 variants sets, in order.                             *)
VariantOverrides ==
  << <<>>,
     [slippage |-> 30, order |-> "CHEAPEST"],
     [slippage |-> 50, order |-> "FASTEST"],
     [slippage |-> 20, bridges |-> [prefer |-> <<"hop", "across", "cbridge">>]],
     [slippage |-> 20, exchanges |-> [prefer |-> <<"1inch", "paraswap", "0x">>]],
     [slippage |-> 25, allowSwitchChain |-> TRUE],
     [slippage |-> 10, order |-> "CHEAPEST",
      bridges |-> [prefer |-> <<"hop", "arbitrum", "optimism", "polygon">>]] >>

(* C24: generateAlternativeConfigs returns 7 variants in this order: the   *)
(* base; slippage 0.03 and order CHEAPEST; slippage 0.05 and order         *)
(* FASTEST; slippage 0.02 and preferred bridges; slippage 0.02 and         *)
(* preferred exchanges; slippage 0.025 and allowSwitchChain; slippage 0.01 *)
(* with preferred bridges and order CHEAPEST.  Every variant keeps the     *)
(* chain ids, token addresses, amount and addresses of the base and every  *)
(* option of the base that it does not set.                                *)
C24_SevenVariants ==
  output.done =>
    \E base \in {input.baseParams}, configs \in {output.value} :
       /\ Len(configs) = 7
       /\ \A i \in 1..7 :
             /\ \A k \in DOMAIN base \ {"options"} : configs[i].params[k] = base[k]
             /\ DOMAIN configs[i].params = DOMAIN base \ {"options"}
       /\ configs[1].options =
            (IF "options" \in DOMAIN base THEN Some(base.options) ELSE Missing)
       /\ \A i \in 2..7 :
             \E set \in {VariantOverrides[i]}, options \in {configs[i].options[1]},
                kept \in {IF "options" \in DOMAIN base THEN base.options ELSE <<>>} :
                /\ DOMAIN options = DOMAIN set \cup DOMAIN kept
                /\ \A k \in DOMAIN set : options[k] = set[k]
                /\ \A k \in DOMAIN kept \ DOMAIN set : options[k] = kept[k]

C24_Witness ==
  /\ output.done
  /\ "options" \in DOMAIN input.baseParams
  /\ input.baseParams.options =
       [integrator |-> "lifi-lens", slippage |-> 5, order |-> "FASTEST"]
  /\ output.value[4].options[1].integrator = "lifi-lens"
  /\ output.value[4].options[1].order = "FASTEST"
  /\ output.value[4].options[1].slippage = 20

(* C26: in a comparison with at least one alternative the top-ranked entry *)
(* is never labeled ALTERNATIVE: a route whose optimal score is the        *)
(* maximum of the candidates is CHEAPEST, FASTEST, SAFEST or OPTIMAL.      *)
C26_TopIsRecommended ==
  output.done =>
    \E ranked \in {output.value.alternativeRoutes} :
       /\ ranked # <<>> => ranked[1].recommendation # "ALTERNATIVE"
       /\ \A i \in 1..Len(ranked) :
             (\A j \in 1..Len(ranked) :
                 RGe(WeightedScore(ranked[i].metrics),
                     WeightedScore(ranked[j].metrics)))
             => ranked[i].recommendation
                  \in {"CHEAPEST", "FASTEST", "SAFEST", "OPTIMAL"}

(* The top-ranked entry leads no ranking by fees, time or reliability.     *)
C26_Witness ==
  /\ output.done
  /\ Len(output.value.alternativeRoutes) = 3
  /\ [i \in 1..3 |-> <<output.value.alternativeRoutes[i].route.id,
                       output.value.alternativeRoutes[i].recommendation>>]
       = << <<"r1", "OPTIMAL">>, <<"k2", "CHEAPEST">>, <<"k3", "SAFEST">> >>

(* C27: recommendations is as long as alternativeRoutes and its entry i    *)
(* has the type, the pros and the cons of alternativeRoutes[i], in the     *)
(* order the ranking by score has left.                                    *)
C27_RecommendationsAligned ==
  output.done =>
    \E ranked \in {output.value.alternativeRoutes},
       recommendations \in {output.value.recommendations} :
       /\ Len(recommendations) = Len(ranked)
       /\ \A i \in 1..Len(ranked) :
             /\ recommendations[i].type = ranked[i].recommendation
             /\ recommendations[i].pros = ranked[i].pros
             /\ recommendations[i].cons = ranked[i].cons

(* The ranking has moved the last candidate to the top.                    *)
C27_Witness ==
  /\ output.done
  /\ input.routes = <<rSwapBridge, rAcross>>
  /\ output.value.alternativeRoutes[1].route = rAcross
  /\ output.value.recommendations[1].type = "CHEAPEST"
  /\ output.value.recommendations[2].cons # output.value.recommendations[1].cons

(* C28: executeWithRetry invokes the operation at most maxRetries times    *)
(* for one request; it invokes it again only after a failure that is       *)
(* retryable, and a failure that is not retryable, or the failure of the   *)
(* last allowed attempt, goes to the caller.                               *)
C28_RetryPolicy ==
  [][\A c \in Calls, i \in Variants :
        pc[c] = "awaiting" /\ pc'[c] = "awaiting" =>
          /\ attempt'[c][i] <= maxRetries
          /\ attempt'[c][i] # attempt[c][i] =>
               /\ attempt'[c][i] = attempt[c][i] + 1
               /\ vstate[c][i] = "sleeping"
               /\ vstate'[c][i] = "pending"
          /\ vstate[c][i] = "pending" /\ vstate'[c][i] = "sleeping" =>
               /\ "retryable" \in Api(api).outcomes[i]
               /\ attempt[c][i] < maxRetries
          /\ vstate[c][i] = "pending" /\ vstate'[c][i] = "caught" =>
               \/ "fatal" \in Api(api).outcomes[i]
               \/ attempt[c][i] = maxRetries
          /\ vstate[c][i] = "pending" /\ attempt[c][i] = maxRetries =>
               vstate'[c][i] # "sleeping"]_vars

(* A request that failed maxRetries times, each time with a retryable      *)
(* error, and was then given up.                                           *)
C28_Witness ==
  \E c \in Calls, i \in Variants :
     /\ Api(api).outcomes[i] = {"retryable"}
     /\ vstate[c][i] = "caught"
     /\ attempt[c][i] = maxRetries
     /\ {r.attempt : r \in {q \in network : q.call = c /\ q.variant = i}}
          = 1..maxRetries

----------------------------------------------------------------------------
(* pollTransactionStatus.                                                  *)

PollEnded == output.pc \in {"returned", "thrown"}

(* The requests sent are the attempts counted, and the one not yet         *)
(* counted: the one in flight, the one whose status the loop waits on or   *)
(* returned, the one whose error it rethrew.                               *)
RequestsCounted ==
  output.requests =
    output.attempts +
      (IF \/ output.pc \in {"requesting", "waiting", "returned"}
          \/ output.pc = "thrown" /\ output.outcome \in {Some(e) : e \in ApiErrors}
       THEN 1 ELSE 0)

PollOutcome ==
  /\ output.requests <= MaxAttemptsOf(input.options)
  /\ RequestsCounted
  /\ output.pc = "returned" =>
        \E response \in StatusResponses :
           output.outcome = Some(parseStatusResponse(response))
  /\ output.pc = "thrown" =>
        \/ output.outcome = Some(TimedOutError)
             /\ output.requests = MaxAttemptsOf(input.options)
        \/ output.outcome = Some(InvalidHashError) /\ output.requests = 0
        \/ \E e \in ApiErrors :
              Rethrown(e) /\ output.outcome = Some(e)

(* C29: pollTransactionStatus always terminates, after at most maxAttempts *)
(* status requests (60 when the options give none): it returns a status,   *)
(* or rethrows a non-retryable error with the failing request the last     *)
(* one, or throws the timed-out error once maxAttempts requests were made  *)
(* and none returned; every request that ended in a retryable error is     *)
(* counted as an attempt.                                                  *)
C29_PollTerminates == [](PollOutcome) /\ <>(PollEnded)

(* The call times out: the maxAttempts requests the options allow were     *)
(* made and none returned a finished transaction.                          *)
C29_Witness ==
  /\ input.options # Missing
  /\ input.options[1].maxAttempts = Some(MaxPollAttempts)
  /\ output.pc = "thrown"
  /\ output.outcome = Some(TimedOutError)
  /\ output.requests = MaxPollAttempts
  /\ output.finished = Missing

(* C30: at the first poll whose response reports a finished transaction    *)
(* (status DONE or status FAILED), pollTransactionStatus calls onUpdate    *)
(* once for that response, returns that status and sends no further        *)
(* status request.                                                         *)
C30_StopsAtFinished ==
  output.finished # Missing =>
    /\ output.pc = "returned"
    /\ output.outcome = output.finished
    /\ ~output.requestedAfter
    /\ HasOnUpdate(input.options) => output.updates = 1

====
